---- MODULE Spec2Model ----
(***************************************************************************)
(* Model of the ladybug-display-schema validation layer.                   *)
(*                                                                         *)
(* The library is a set of pydantic models; every operation is a single    *)
(* parse/construct call on a payload (a dict).  A behaviour of the model   *)
(* is: a call is chosen (Init), the call is carried out by the action of   *)
(* its class, and the outcome is recorded in `result`.  An entity that a   *)
(* call returned may then be assigned an attribute (its new value replaces *)
(* the field in `result`), or be serialized (`wire` holds its JSON object) *)
(* and the serialization be parsed again (`parsed` holds the outcome).     *)
(*                                                                         *)
(* Payload dicts are TLA+ records: a key is in the dict iff it is in the   *)
(* DOMAIN of the record.  Strings that matter character-wise (the type     *)
(* tag) are sequences of tokens, so that a name followed by a newline is a *)
(* different string from the name.  Lists are sequences.  A float is       *)
(* represented by the number 0.                                            *)
(***************************************************************************)
EXTENDS Integers, Sequences, FiniteSets, TLC

VARIABLES pc, call, result, wire, parsed

vars == <<pc, call, result, wire, parsed>>

(***************************************************************************)
(* Bounds of the enumeration of inputs.                                    *)
(***************************************************************************)
\* one mesh or polyface: its vertices, faces and colors
MaxVerts == 4
MaxFaces == 3
MaxColors == 4
\* the geometries of a list
MaxGeos == 2
\* the values of a data set, and the data sets
MaxValues == 6
MaxDataSets == 2
\* the numbers given to a field declared Union[Default, T]: -1..MaxNumber
MaxNumber == 2
\* the edge_indices and the edge_types of a PolyfaceEdgeInfo: at most
MaxEdges == 4

(***************************************************************************)
(* Python values.                                                          *)
(***************************************************************************)
\* None, and a value that is not None, as returned by dict.get().
None == [isNone |-> TRUE]
Some(v) == [isNone |-> FALSE, v |-> v]

\* the empty dict, and the dict of one key that an optional field adds
Absent == <<>>
Opt(present, k, v) == IF present THEN k :> v ELSE Absent

\* the element of a set of one element: Only({F(v) : v \in {e}}) is F(e)
\* with e computed once
Only(S) == CHOOSE x \in S : TRUE

\* a list of n equal items
Rep(n, x) == [i \in 1..n |-> x]

\* a string made of the given tokens
Str(name) == <<name>>

\* outcome of a function that raised exc with a message made of numbers
Raise(exc, msg) == [exc |-> exc, msg |-> msg]
\* outcome of a function that returned
Return(obj) == [exc |-> "none", obj |-> obj]

\* pydantic's validate_model for a class with a post root validator declared
\* by a bare @root_validator (skip_on_failure is False): the fields are
\* validated one by one, the root validator then runs on the dict of the
\* fields that validated, whether or not a field failed; a ValueError,
\* TypeError or AssertionError it raises is one more validation error, any
\* other exception leaves the call as it is.
validate_model(fields_ok, root, obj) ==
    IF root.exc \notin {"none", "ValueError", "TypeError", "AssertionError"}
    THEN root
    ELSE IF fields_ok /\ root.exc = "none" THEN Return(obj)
    ELSE [exc |-> "ValidationError", field_errors |-> ~fields_ok, root |-> root]

\* validate_model for a class without root validator
validate_fields(fields_ok, obj) ==
    IF fields_ok THEN Return(obj)
    ELSE [exc |-> "ValidationError", field_errors |-> TRUE,
          root |-> Return(<<>>)]

(***************************************************************************)
(* The type discriminant.                                                  *)
(***************************************************************************)
\* constr(regex='^Name$'): pydantic applies re.match(regex, value).  In a
\* Python regular expression `$` matches at the end of the string and also
\* just before a newline that ends the string.
constr_regex(name, s) ==
    /\ Len(s) >= 1
    /\ s[1] = name
    /\ \/ Len(s) = 1
       \/ Len(s) = 2 /\ s[2] = "\n"

\* Literal['Name']: the value must equal the literal.
Literal(name, s) == s = <<name>>

\* The classes whose type field is declared with Literal.
LiteralTyped == {"Color", "Default"}

\* The classes that declare no type field.
Untyped == {"PolyfaceEdgeInfo"}

\* model_config = ConfigDict(extra='forbid'): a key that is not a field is
\* an error.
NoExtraBaseModel_ignore(p, fields) == TRUE

NoExtraBaseModel(p, fields) == DOMAIN p \subseteq fields

\* Validation of the type key of a payload p of class cls: the default is
\* the class name; a supplied value is checked against the declaration.
type_ok_required(cls, p) ==
    IF cls \in Untyped THEN TRUE
    ELSE IF "type" \notin DOMAIN p THEN FALSE
    ELSE IF cls \in LiteralTyped THEN Literal(cls, p.type)
    ELSE constr_regex(cls, p.type)

type_ok(cls, p) ==
    IF cls \in Untyped THEN TRUE
    ELSE IF "type" \notin DOMAIN p THEN TRUE
    ELSE IF cls \in LiteralTyped THEN Literal(cls, p.type)
    ELSE constr_regex(cls, p.type)

\* The value of the type field of the accepted object.
type_value(cls, p) == IF "type" \in DOMAIN p THEN p.type ELSE Str(cls)

(***************************************************************************)
(* Color                                                                   *)
(***************************************************************************)
Color_fields == {"type", "r", "g", "b", "a"}

Color_valid(p) ==
    /\ NoExtraBaseModel(p, Color_fields)
    /\ type_ok("Color", p)
    /\ {"r", "g", "b"} \subseteq DOMAIN p
    /\ \A k \in DOMAIN p \ {"type"} : p[k] >= 0 /\ p[k] <= 255

\* List[Color]: no length constraint, each item a valid Color
ColorList_valid(cs) == \A i \in 1..Len(cs) : Color_valid(cs[i])

\* the Color object built from a payload that passed Color_valid: the
\* type tag and the alpha channel take their defaults when not given
Color_object(p) ==
    [cls |-> "Color",
     type |-> IF "type" \in DOMAIN p THEN p.type ELSE Str("Color"),
     fields |-> [k \in {"r", "g", "b", "a"} |->
                   IF k \in DOMAIN p THEN p[k] ELSE 255]]

\* List[Color]: every element of a colour list is held as a Color object
ColorList_object(cs) == [i \in 1..Len(cs) |-> Color_object(cs[i])]

(***************************************************************************)
(* Mesh2D, Mesh3D, Polyface3D                                              *)
(***************************************************************************)
Mesh_fields == {"type", "vertices", "faces", "colors"}

\* vertices: List[conlist(float, min_items=d, max_items=d)], min_items=3
vertices_valid_min_two(vs, d) ==
    /\ Len(vs) >= 2
    /\ \A i \in 1..Len(vs) : Len(vs[i]) = d

vertices_valid(vs, d) ==
    /\ Len(vs) >= 3
    /\ \A i \in 1..Len(vs) : Len(vs[i]) = d

\* faces: List[conlist(conint(ge=0), min_items=3, max_items=4)], min_items=1
faces_valid(fs) ==
    /\ Len(fs) >= 1
    /\ \A i \in 1..Len(fs) :
          /\ Len(fs[i]) >= 3
          /\ Len(fs[i]) <= 4
          /\ \A j \in 1..Len(fs[i]) : fs[i][j] >= 0

\* The fields of a mesh payload, each validated on its own.  The result is
\* the dict of the fields that validated (defaults filled in) and the flag
\* telling whether every field validated.
Mesh_values(cls, d, p) ==
    LET tOK == type_ok(cls, p)
        vOK == "vertices" \in DOMAIN p /\ vertices_valid(p.vertices, d)
        fOK == "faces" \in DOMAIN p /\ faces_valid(p.faces)
        cOK == "colors" \notin DOMAIN p \/ ColorList_valid(p.colors)
    IN  [ok |-> tOK /\ vOK /\ fOK /\ cOK /\ NoExtraBaseModel(p, Mesh_fields),
         type |-> IF tOK THEN Some(type_value(cls, p)) ELSE None,
         vertices |-> IF vOK THEN Some(p.vertices) ELSE None,
         faces |-> IF fOK THEN Some(p.faces) ELSE None,
         colors |-> IF "colors" \in DOMAIN p /\ cOK
                    THEN Some(ColorList_object(p.colors)) ELSE None]

\* The object built from validated mesh fields.  The class has no validator
\* besides the field declarations.
Mesh_object(cls, v) ==
    [cls |-> cls, type |-> v.type.v, vertices |-> v.vertices.v,
     faces |-> v.faces.v, colors |-> v.colors]

Mesh2D(p) ==
    LET v == Mesh_values("Mesh2D", 2, p)
    IN  validate_fields(v.ok, Mesh_object("Mesh2D", v))

Mesh3D(p) ==
    LET v == Mesh_values("Mesh3D", 3, p)
    IN  validate_fields(v.ok, Mesh_object("Mesh3D", v))

(***************************************************************************)
(* PolyfaceEdgeInfo, Polyface3D                                            *)
(***************************************************************************)
PolyfaceEdgeInfo_fields == {"edge_indices", "edge_types"}

\* edge_indices: List[conlist(conint(ge=0), 2, 2)], min_items=3
\* edge_types: List[conint(ge=0)], min_items=3
PolyfaceEdgeInfo_valid(p) ==
    /\ NoExtraBaseModel(p, PolyfaceEdgeInfo_fields)
    /\ PolyfaceEdgeInfo_fields \subseteq DOMAIN p
    /\ Len(p.edge_indices) >= 3
    /\ \A i \in 1..Len(p.edge_indices) :
          /\ Len(p.edge_indices[i]) = 2
          /\ \A j \in 1..2 : p.edge_indices[i][j] >= 0
    /\ Len(p.edge_types) >= 3
    /\ \A i \in 1..Len(p.edge_types) : p.edge_types[i] >= 0

Polyface3D_fields == {"type", "vertices", "face_indices", "edge_information"}

\* face_indices: List[conlist(conlist(conint(ge=0), min_items=3),
\*                    min_items=1)], min_items=1
face_indices_valid(fs) ==
    /\ Len(fs) >= 1
    /\ \A i \in 1..Len(fs) :
          /\ Len(fs[i]) >= 1
          /\ \A j \in 1..Len(fs[i]) :
                /\ Len(fs[i][j]) >= 3
                /\ \A k \in 1..Len(fs[i][j]) : fs[i][j][k] >= 0

Polyface3D_values(p) ==
    LET tOK == type_ok("Polyface3D", p)
        vOK == "vertices" \in DOMAIN p /\ vertices_valid(p.vertices, 3)
        fOK == "face_indices" \in DOMAIN p /\ face_indices_valid(p.face_indices)
        eOK == "edge_information" \notin DOMAIN p
                  \/ PolyfaceEdgeInfo_valid(p.edge_information)
    IN  [ok |-> tOK /\ vOK /\ fOK /\ eOK
                  /\ NoExtraBaseModel(p, Polyface3D_fields),
         type |-> IF tOK THEN Some(type_value("Polyface3D", p)) ELSE None,
         vertices |-> IF vOK THEN Some(p.vertices) ELSE None,
         face_indices |-> IF fOK THEN Some(p.face_indices) ELSE None,
         edge_information |->
             IF "edge_information" \in DOMAIN p /\ eOK
             THEN Some([cls |-> "PolyfaceEdgeInfo",
                        fields |-> p.edge_information])
             ELSE None]

Polyface3D(p) ==
    LET v == Polyface3D_values(p)
    IN  validate_fields(v.ok,
            [cls |-> "Polyface3D", type |-> v.type.v,
             vertices |-> v.vertices.v, face_indices |-> v.face_indices.v,
             edge_information |-> v.edge_information])

(***************************************************************************)
(* The geometry classes that only declare fields                           *)
(***************************************************************************)
\* some members of the enumeration DataTypes
DataTypes == {"ActivityLevel", "AirSpeed", "ZenithLuminance"}

\* Validity of a value for a declared field type.  Floats are whole numbers
\* here, so the bounds 2*pi and pi/2 are met by the whole numbers up to 6
\* and up to 1.
kind_valid(kind, v) ==
    CASE kind = "float" -> TRUE
      [] kind = "bool" -> v \in BOOLEAN
      [] kind = "vec2" -> Len(v) = 2
      [] kind = "vec3" -> Len(v) = 3
      [] kind = "pts2" -> vertices_valid(v, 2)
      [] kind = "pts3" -> vertices_valid(v, 3)
      [] kind = "holes" -> \A i \in 1..Len(v) : vertices_valid(v[i], 3)
      [] kind = "angle" -> v >= 0 /\ v <= 6
      [] kind = "gt0" -> v > 0
      [] kind = "cone_angle" -> v > 0 /\ v < 2
      [] kind = "str" -> TRUE
      [] kind = "DataTypes" -> v \in DataTypes
      [] kind = "GenericType" -> constr_regex("GenericType", v)
      [] kind = "Plane" ->
            /\ DOMAIN v \subseteq {"type", "n", "o", "x"}
            /\ {"n", "o"} \subseteq DOMAIN v
            /\ type_ok("Plane", v)
            /\ \A k \in DOMAIN v \ {"type"} : Len(v[k]) = 3

\* The declared fields of each class besides type: the required ones, and
\* the optional ones with their default (None is the boxed None).
Declared(cls) ==
    CASE cls \in {"Vector2D", "Point2D"} ->
            [req |-> [x |-> "float", y |-> "float"], opt |-> <<>>, def |-> <<>>]
      [] cls \in {"Ray2D", "LineSegment2D"} ->
            [req |-> [p |-> "vec2", v |-> "vec2"], opt |-> <<>>, def |-> <<>>]
      [] cls = "Polyline2D" ->
            [req |-> [vertices |-> "pts2"], opt |-> [interpolated |-> "bool"],
             def |-> [interpolated |-> FALSE]]
      [] cls = "Arc2D" ->
            [req |-> [c |-> "vec2", r |-> "float"],
             opt |-> [a1 |-> "angle", a2 |-> "angle"],
             def |-> [a1 |-> 0, a2 |-> 6]]
      [] cls = "Polygon2D" ->
            [req |-> [vertices |-> "pts2"], opt |-> <<>>, def |-> <<>>]
      [] cls \in {"Vector3D", "Point3D"} ->
            [req |-> [x |-> "float", y |-> "float", z |-> "float"],
             opt |-> <<>>, def |-> <<>>]
      [] cls \in {"Ray3D", "LineSegment3D"} ->
            [req |-> [p |-> "vec3", v |-> "vec3"], opt |-> <<>>, def |-> <<>>]
      [] cls = "Plane" ->
            [req |-> [n |-> "vec3", o |-> "vec3"], opt |-> [x |-> "vec3"],
             def |-> [x |-> None]]
      [] cls = "Polyline3D" ->
            [req |-> [vertices |-> "pts3"], opt |-> [interpolated |-> "bool"],
             def |-> [interpolated |-> FALSE]]
      [] cls = "Arc3D" ->
            [req |-> [plane |-> "Plane", radius |-> "float"],
             opt |-> [a1 |-> "angle", a2 |-> "angle"],
             def |-> [a1 |-> 0, a2 |-> 6]]
      [] cls = "Face3D" ->
            [req |-> [boundary |-> "pts3"],
             opt |-> [holes |-> "holes", plane |-> "Plane"],
             def |-> [holes |-> None, plane |-> None]]
      [] cls = "Sphere" ->
            [req |-> [center |-> "vec3", radius |-> "gt0"],
             opt |-> <<>>, def |-> <<>>]
      [] cls = "Cone" ->
            [req |-> [vertex |-> "vec3", axis |-> "vec3",
                      angle |-> "cone_angle"],
             opt |-> <<>>, def |-> <<>>]
      [] cls = "Cylinder" ->
            [req |-> [center |-> "vec3", axis |-> "vec3", radius |-> "gt0"],
             opt |-> <<>>, def |-> <<>>]
      [] cls = "DataType" ->
            [req |-> [data_type |-> "DataTypes", name |-> "str"],
             opt |-> <<>>, def |-> <<>>]
      [] cls = "GenericDataType" ->
            [req |-> [name |-> "str", base_unit |-> "str"],
             opt |-> [data_type |-> "GenericType", abbreviation |-> "str",
                      point_in_time |-> "bool", cumulative |-> "bool"],
             def |-> [data_type |-> Str("GenericType"), abbreviation |-> "",
                      point_in_time |-> TRUE, cumulative |-> FALSE]]

\* the classes described by Declared
FieldsOnlyClasses ==
    {"Vector2D", "Point2D", "Ray2D", "LineSegment2D", "Polyline2D", "Arc2D",
     "Polygon2D", "Vector3D", "Point3D", "Ray3D", "Plane", "LineSegment3D",
     "Polyline3D", "Arc3D", "Face3D", "Sphere", "Cone", "Cylinder",
     "DataType", "GenericDataType"}

\* The value a field of the given kind holds after validation: a nested
\* Plane is held as a Plane object (type and x take their defaults), every
\* other kind of value is held as it was given.
kind_value(kind, v) ==
    IF kind = "Plane"
    THEN [cls |-> "Plane", type |-> type_value("Plane", v),
          fields |-> [n |-> v.n, o |-> v.o,
                      x |-> IF "x" \in DOMAIN v THEN Some(v.x) ELSE None]]
    ELSE v

\* Construction of an object of a class that only declares fields: the
\* type is checked against its regex, every required key must be there,
\* no other key than the declared ones may be there, and every value must
\* be valid for its field.
FieldsOnly(cls, p) ==
    LET d == Declared(cls)
        kinds == d.req @@ d.opt
        ok == /\ type_ok(cls, p)
              /\ DOMAIN d.req \subseteq DOMAIN p
              /\ NoExtraBaseModel(p, DOMAIN kinds \cup {"type"})
              /\ \A k \in DOMAIN p \ {"type"} : kind_valid(kinds[k], p[k])
    IN  validate_fields(ok,
            [cls |-> cls, type |-> type_value(cls, p),
             fields |-> [k \in DOMAIN kinds |->
                           IF k \notin DOMAIN p THEN d.def[k]
                           ELSE IF k \in {"x", "holes", "plane"}
                                   /\ k \in DOMAIN d.opt
                                THEN Some(kind_value(kinds[k], p[k]))
                                ELSE kind_value(kinds[k], p[k])]])

\* cls(**p): construction of an object of class cls from the payload p
\* (defined below, once every class is)
RECURSIVE Construct(_, _)

\* The members of the union of geometry classes, in the order of the Union
GEOMETRY_UNION ==
    <<"Vector2D", "Point2D", "Ray2D", "LineSegment2D", "Polyline2D", "Arc2D",
      "Polygon2D", "Mesh2D", "Vector3D", "Point3D", "Ray3D", "Plane",
      "LineSegment3D", "Polyline3D", "Arc3D", "Face3D", "Mesh3D",
      "Polyface3D", "Sphere", "Cone", "Cylinder">>

\* The members of the union of display classes, in the order of the Union
DISPLAY_UNION ==
    <<"DisplayVector2D", "DisplayPoint2D", "DisplayRay2D",
      "DisplayLineSegment2D", "DisplayPolyline2D", "DisplayArc2D",
      "DisplayPolygon2D", "DisplayMesh2D", "DisplayVector3D",
      "DisplayPoint3D", "DisplayRay3D", "DisplayPlane",
      "DisplayLineSegment3D", "DisplayPolyline3D", "DisplayArc3D",
      "DisplayFace3D", "DisplayMesh3D", "DisplayPolyface3D", "DisplaySphere",
      "DisplayCone", "DisplayCylinder", "DisplayText3D">>

\* A field declared Union[A, B, ...] (no discriminator): the members are
\* tried in the order of the declaration and the first one that accepts
\* the payload builds the value; the field fails when none accepts it.
\* first_fit tries the members from the i-th on.
RECURSIVE first_fit(_, _, _)
first_fit(members, p, i) ==
    IF i > Len(members) THEN Raise("ValidationError", <<>>)
    ELSE Only({ IF r.exc = "none" THEN r ELSE first_fit(members, p, i + 1)
                : r \in {Construct(members[i], p)} })

Union_last_fit(members, p) ==
    LET accepting == {i \in 1..Len(members) :
                         Construct(members[i], p).exc = "none"}
        last == CHOOSE i \in accepting : \A j \in accepting : i >= j
    IN  IF accepting = {} THEN Raise("ValidationError", <<>>)
        ELSE Construct(members[last], p)

Union(members, p) == first_fit(members, p, 1)

\* A field k declared List[Union[A, B, ...]]: every item of p[k] is resolved
\* in the union (no item when the key is absent).
ListOfUnion(members, p, k) ==
    IF k \in DOMAIN p
    THEN [i \in 1..Len(p[k]) |-> Union(members, p[k][i])]
    ELSE <<>>

\* isinstance(obj, classes)
isinstance(obj, classes) == obj.cls \in classes

(***************************************************************************)
(* The display classes with one color                                      *)
(***************************************************************************)
LineTypes == {"Continuous", "Dashed", "Dotted", "DashDot"}
DisplayModes == {"Surface", "SurfaceWithEdges", "Wireframe", "Points"}

\* the class of the geometry field of each display class
DisplayGeometry ==
    [DisplayVector2D |-> "Vector2D", DisplayPoint2D |-> "Point2D",
     DisplayRay2D |-> "Ray2D", DisplayLineSegment2D |-> "LineSegment2D",
     DisplayPolyline2D |-> "Polyline2D", DisplayArc2D |-> "Arc2D",
     DisplayPolygon2D |-> "Polygon2D", DisplayVector3D |-> "Vector3D",
     DisplayPoint3D |-> "Point3D", DisplayRay3D |-> "Ray3D",
     DisplayPlane |-> "Plane", DisplayLineSegment3D |-> "LineSegment3D",
     DisplayPolyline3D |-> "Polyline3D", DisplayArc3D |-> "Arc3D",
     DisplayFace3D |-> "Face3D", DisplaySphere |-> "Sphere",
     DisplayCone |-> "Cone", DisplayCylinder |-> "Cylinder"]

\* the classes derived from LineCurveBase
LineCurveBase ==
    {"DisplayLineSegment2D", "DisplayPolyline2D", "DisplayArc2D",
     "DisplayPolygon2D", "DisplayLineSegment3D", "DisplayPolyline3D",
     "DisplayArc3D"}

\* the optional fields of a display class, with the checks of the ones
\* that are enumerations or booleans
SingleColor_optional(cls) ==
    {"user_data"}
    \cup (IF cls \in LineCurveBase THEN {"line_width", "line_type"} ELSE {})
    \cup (IF cls = "DisplayPoint2D" THEN {"radius"} ELSE {})
    \cup (IF cls = "DisplayPlane" THEN {"show_axes", "show_grid"} ELSE {})
    \cup (IF cls \in {"DisplayFace3D", "DisplaySphere", "DisplayCone",
                      "DisplayCylinder"} THEN {"display_mode"} ELSE {})

\* Default(): the object of class Default
Default == [cls |-> "Default", type |-> Str("Default")]

\* A field declared Union[Default, T], T a number with an optional lower
\* bound ge (None without bound).  The payload x of the field is a JSON
\* object (x.json = "object", x.v the dict) or a number (x.json = "number");
\* Default is tried first and accepts a dict only; T accepts a number only.
\* The value is Default (isDefault) or the number.
DefaultOr_zero_unset(ge, x) ==
    IF x.json = "object"
    THEN IF type_ok("Default", x.v) /\ NoExtraBaseModel(x.v, {"type"})
         THEN Return([isDefault |-> TRUE, v |-> Default])
         ELSE Raise("ValidationError", <<>>)
    ELSE IF x.v = 0
         THEN Return([isDefault |-> TRUE, v |-> Default])
         ELSE IF ge.isNone \/ x.v >= ge.v
         THEN Return([isDefault |-> FALSE, v |-> x.v])
         ELSE Raise("ValidationError", <<>>)

DefaultOr(ge, x) ==
    IF x.json = "object"
    THEN IF type_ok("Default", x.v) /\ NoExtraBaseModel(x.v, {"type"})
         THEN Return([isDefault |-> TRUE, v |-> Default])
         ELSE Raise("ValidationError", <<>>)
    ELSE IF ge.isNone \/ x.v >= ge.v
         THEN Return([isDefault |-> FALSE, v |-> x.v])
         ELSE Raise("ValidationError", <<>>)

\* The value of the field k of the payload p declared Union[Default, T]
\* with the default Default()
DefaultOrField(ge, p, k) ==
    IF k \in DOMAIN p THEN DefaultOr(ge, p[k])
    ELSE Return([isDefault |-> TRUE, v |-> Default])

\* the field of a display class declared Union[Default, float] with ge=0:
\* line_width of the classes derived from LineCurveBase, radius of
\* DisplayPoint2D; "" for the other classes
SingleColor_default_or(cls) ==
    IF cls \in LineCurveBase THEN "line_width"
    ELSE IF cls = "DisplayPoint2D" THEN "radius" ELSE ""

\* SingleColorBase and LineCurveBase subclasses: color and geometry are
\* required
SingleColorBase(cls, p) ==
    LET dk == SingleColor_default_or(cls)
        ok == /\ type_ok(cls, p)
              /\ dk # "" => DefaultOrField(Some(0), p, dk).exc = "none"
              /\ NoExtraBaseModel(p, {"type", "color", "geometry"}
                                        \cup SingleColor_optional(cls))
              /\ "color" \in DOMAIN p /\ Color_valid(p.color)
              /\ "geometry" \in DOMAIN p
              /\ Construct(DisplayGeometry[cls], p.geometry).exc = "none"
              /\ "line_type" \in DOMAIN p => p.line_type \in LineTypes
              /\ "display_mode" \in DOMAIN p => p.display_mode \in DisplayModes
              /\ "show_axes" \in DOMAIN p => p.show_axes \in BOOLEAN
              /\ "show_grid" \in DOMAIN p => p.show_grid \in BOOLEAN
    IN  validate_fields(ok,
            [cls |-> cls, type |-> type_value(cls, p),
             color |-> Construct("Color", p.color).obj,
             geometry |-> Construct(DisplayGeometry[cls], p.geometry).obj]
            @@ (IF dk = "" THEN Absent
                ELSE dk :> DefaultOrField(Some(0), p, dk).obj))

(***************************************************************************)
(* DisplayMesh2D, DisplayMesh3D, DisplayPolyface3D                         *)
(***************************************************************************)
DisplayMesh_fields == {"type", "geometry", "colors", "display_mode", "user_data"}

\* The fields of a display mesh payload: geometry is a nested model, built
\* by the class of the field; colors is a required list of Color.
DisplayMesh_values(cls, geo, p) ==
    LET tOK == type_ok(cls, p)
        gOK == "geometry" \in DOMAIN p /\ geo.exc = "none"
        cOK == "colors" \in DOMAIN p /\ ColorList_valid(p.colors)
    IN  [ok |-> tOK /\ gOK /\ cOK /\ NoExtraBaseModel(p, DisplayMesh_fields),
         type |-> IF tOK THEN Some(type_value(cls, p)) ELSE None,
         geometry |-> IF gOK THEN Some(geo.obj) ELSE None,
         colors |-> IF cOK THEN Some(ColorList_object(p.colors)) ELSE None]

DisplayMesh_object(cls, v) ==
    [cls |-> cls, type |-> v.type.v, geometry |-> v.geometry.v,
     colors |-> v.colors.v]

\* DisplayMesh2D.check_colors_align
DisplayMesh2D_check_colors_align_no_single(values) ==
    LET colors == values.colors
        geo == values.geometry
    IN  IF colors.isNone THEN Return(values)
        ELSE IF geo.isNone THEN Raise("AttributeError", <<>>)
        ELSE IF Len(colors.v) \in {Len(geo.v.faces), Len(geo.v.vertices)}
        THEN Return(values)
        ELSE Raise("ValueError",
                 <<Len(colors.v), Len(geo.v.faces), Len(geo.v.vertices)>>)

DisplayMesh2D_check_colors_align(values) ==
    LET colors == values.colors
        geo == values.geometry
    IN  IF colors.isNone THEN Return(values)
        ELSE IF geo.isNone THEN Raise("AttributeError", <<>>)
        ELSE IF Len(colors.v) \in {1, Len(geo.v.faces), Len(geo.v.vertices)}
        THEN Return(values)
        ELSE Raise("ValueError",
                 <<Len(colors.v), Len(geo.v.faces), Len(geo.v.vertices)>>)

DisplayMesh2D(p) ==
    LET geo == IF "geometry" \in DOMAIN p THEN Mesh2D(p.geometry)
               ELSE Raise("missing", <<>>)
        v == DisplayMesh_values("DisplayMesh2D", geo, p)
    IN  validate_model(v.ok, DisplayMesh2D_check_colors_align(v),
                       DisplayMesh_object("DisplayMesh2D", v))

\* DisplayMesh3D.check_colors_align
DisplayMesh3D_check_colors_align(values) ==
    LET colors == values.colors
        geo == values.geometry
    IN  IF colors.isNone THEN Return(values)
        ELSE IF geo.isNone THEN Raise("AttributeError", <<>>)
        ELSE IF Len(colors.v) \in {1, Len(geo.v.faces), Len(geo.v.vertices)}
        THEN Return(values)
        ELSE Raise("ValueError",
                 <<Len(colors.v), Len(geo.v.faces), Len(geo.v.vertices)>>)

DisplayMesh3D(p) ==
    LET geo == IF "geometry" \in DOMAIN p THEN Mesh3D(p.geometry)
               ELSE Raise("missing", <<>>)
        v == DisplayMesh_values("DisplayMesh3D", geo, p)
    IN  validate_model(v.ok, DisplayMesh3D_check_colors_align(v),
                       DisplayMesh_object("DisplayMesh3D", v))

\* DisplayPolyface3D.check_colors_align
DisplayPolyface3D_check_colors_align(values) ==
    LET colors == values.colors
        geo == values.geometry
    IN  IF colors.isNone THEN Return(values)
        ELSE IF geo.isNone THEN Raise("AttributeError", <<>>)
        ELSE IF Len(colors.v) \in
                  {1, Len(geo.v.face_indices), Len(geo.v.vertices)}
        THEN Return(values)
        ELSE Raise("ValueError",
                 <<Len(colors.v), Len(geo.v.face_indices), Len(geo.v.vertices)>>)

DisplayPolyface3D(p) ==
    LET geo == IF "geometry" \in DOMAIN p THEN Polyface3D(p.geometry)
               ELSE Raise("missing", <<>>)
        v == DisplayMesh_values("DisplayPolyface3D", geo, p)
    IN  validate_model(v.ok, DisplayPolyface3D_check_colors_align(v),
                       DisplayMesh_object("DisplayPolyface3D", v))

(***************************************************************************)
(* VisualizationData, AnalysisGeometry                                     *)
(***************************************************************************)
VisualizationData_fields ==
    {"type", "values", "legend_parameters", "data_type", "unit", "user_data"}

VisualizationData_any_length(p) ==
    LET ok == /\ type_ok("VisualizationData", p)
              /\ "values" \in DOMAIN p
              /\ NoExtraBaseModel(p, VisualizationData_fields)
    IN  validate_fields(ok,
            [cls |-> "VisualizationData",
             type |-> type_value("VisualizationData", p),
             values |-> p.values])

\* values: List[float], min_items=1
VisualizationData(p) ==
    LET ok == /\ type_ok("VisualizationData", p)
              /\ "values" \in DOMAIN p
              /\ Len(p.values) >= 1
              /\ NoExtraBaseModel(p, VisualizationData_fields)
    IN  validate_fields(ok,
            [cls |-> "VisualizationData",
             type |-> type_value("VisualizationData", p),
             values |-> p.values])

\* identifier: regex ^[.A-Za-z0-9_-]+$, min_length=1, max_length=100; the
\* string is a sequence of characters
IdentifierChars == {"a", "Z", "0", ".", "_", "-"}
identifier_valid(s) ==
    /\ Len(s) >= 1
    /\ Len(s) <= 100
    /\ \E n \in 1..Len(s) :
          /\ \A i \in 1..n : s[i] \in IdentifierChars
          /\ n = Len(s) \/ (n = Len(s) - 1 /\ s[Len(s)] = "\n")

AnalysisGeometry_fields ==
    {"type", "identifier", "display_name", "user_data", "geometry",
     "data_sets", "active_data", "display_mode", "hidden"}

\* The fields of an AnalysisGeometry payload, each validated on its own:
\* every item of geometry is resolved in the union of the geometry classes,
\* every item of data_sets is built as a VisualizationData.
AnalysisGeometry_values(p) ==
    Only({
      LET tOK == type_ok("AnalysisGeometry", p)
          iOK == "identifier" \in DOMAIN p /\ identifier_valid(p.identifier)
          gOK == "geometry" \in DOMAIN p
                   /\ \A i \in 1..Len(geos) : geos[i].exc = "none"
          dOK == "data_sets" \in DOMAIN p
                   /\ Len(p.data_sets) >= 1
                   /\ \A i \in 1..Len(data) : data[i].exc = "none"
      IN  [ok |-> tOK /\ iOK /\ gOK /\ dOK
                    /\ NoExtraBaseModel(p, AnalysisGeometry_fields),
           type |-> IF tOK THEN Some(type_value("AnalysisGeometry", p)) ELSE None,
           identifier |-> IF iOK THEN Some(p.identifier) ELSE None,
           geometry |-> IF gOK THEN Some([i \in 1..Len(geos) |-> geos[i].obj])
                        ELSE None,
           data_sets |-> IF dOK THEN Some([i \in 1..Len(data) |-> data[i].obj])
                         ELSE None,
           active_data |-> IF "active_data" \in DOMAIN p THEN Some(p.active_data)
                           ELSE Some(0)]
      : geos \in {ListOfUnion(GEOMETRY_UNION, p, "geometry")},
        data \in {IF "data_sets" \in DOMAIN p
                  THEN [i \in 1..Len(p.data_sets) |->
                          VisualizationData(p.data_sets[i])]
                  ELSE <<>>} })

RECURSIVE mesh_faces_with_polyfaces(_, _)
mesh_faces_with_polyfaces(geos, n) ==
    IF n = 0 THEN 0
    ELSE mesh_faces_with_polyfaces(geos, n - 1)
           + (IF isinstance(geos[n], {"Mesh2D", "Mesh3D"})
              THEN Len(geos[n].faces)
              ELSE IF isinstance(geos[n], {"Polyface3D"})
              THEN Len(geos[n].face_indices) ELSE 0)

\* the loop over geos: the faces of the meshes among the first n geometries
RECURSIVE mesh_faces(_, _)
mesh_faces(geos, n) ==
    IF n = 0 THEN 0
    ELSE mesh_faces(geos, n - 1)
           + (IF isinstance(geos[n], {"Mesh2D", "Mesh3D"})
              THEN Len(geos[n].faces) ELSE 0)

\* the loop over geos: the vertices of the meshes among the first n geometries
RECURSIVE mesh_vertices(_, _)
mesh_vertices(geos, n) ==
    IF n = 0 THEN 0
    ELSE mesh_vertices(geos, n - 1)
           + (IF isinstance(geos[n], {"Mesh2D", "Mesh3D"})
              THEN Len(geos[n].vertices) ELSE 0)

\* check_values_align, the counts: the number of geometries, and the faces
\* and the vertices of the geometries that are meshes
possible_lens_vertices_as_faces(geos) ==
    LET geo_count_0 == Len(geos)
        geo_count_1 == mesh_faces(geos, Len(geos))
        geo_count_2 == mesh_faces(geos, Len(geos))
    IN  <<geo_count_0, geo_count_1, geo_count_2>>

possible_lens_unmixed(geos) ==
    IF \A i \in 1..Len(geos) : isinstance(geos[i], {"Mesh2D", "Mesh3D"})
    THEN <<Len(geos), mesh_faces(geos, Len(geos)), mesh_vertices(geos, Len(geos))>>
    ELSE <<Len(geos), Len(geos), Len(geos)>>

possible_lens(geos) ==
    LET geo_count_0 == Len(geos)
        geo_count_1 == mesh_faces(geos, Len(geos))
        geo_count_2 == mesh_vertices(geos, Len(geos))
    IN  <<geo_count_0, geo_count_1, geo_count_2>>

\* check_values_align, the loop over data_sets[1:]: the first data set
\* whose values have another length than ref_len raises
same_length_from_third(data_sets, ref_len) ==
    LET bad == {i \in 3..Len(data_sets) : Len(data_sets[i].values) # ref_len}
        i == CHOOSE i \in bad : \A j \in bad : i <= j
    IN  IF bad = {} THEN Return(<<>>)
        ELSE Raise("AssertionError", <<Len(data_sets[i].values), ref_len>>)

same_length(data_sets, ref_len) ==
    LET bad == {i \in 2..Len(data_sets) : Len(data_sets[i].values) # ref_len}
        i == CHOOSE i \in bad : \A j \in bad : i <= j
    IN  IF bad = {} THEN Return(<<>>)
        ELSE Raise("AssertionError", <<Len(data_sets[i].values), ref_len>>)

\* AnalysisGeometry.check_values_align.  len(None) and None[0] raise a
\* TypeError.
AnalysisGeometry_check_values_align_short_message(obj_props) ==
    LET data_sets == obj_props.data_sets
        geos == obj_props.geometry
        lens == possible_lens(geos.v)
        ref_len == Len(data_sets.v[1].values)
    IN  IF geos.isNone THEN Raise("TypeError", <<>>)
        ELSE IF data_sets.isNone THEN Raise("TypeError", <<>>)
        ELSE IF ref_len \notin {lens[1], lens[2], lens[3]}
        THEN Raise("AssertionError", <<ref_len>>)
        ELSE IF same_length(data_sets.v, ref_len).exc # "none"
        THEN same_length(data_sets.v, ref_len)
        ELSE Return(obj_props)

AnalysisGeometry_check_values_align(obj_props) ==
    LET data_sets == obj_props.data_sets
        geos == obj_props.geometry
        lens == possible_lens(geos.v)
        ref_len == Len(data_sets.v[1].values)
    IN  IF geos.isNone THEN Raise("TypeError", <<>>)
        ELSE IF data_sets.isNone THEN Raise("TypeError", <<>>)
        ELSE IF ref_len \notin {lens[1], lens[2], lens[3]}
        THEN Raise("AssertionError", <<ref_len, lens[1], lens[2], lens[3]>>)
        ELSE IF same_length(data_sets.v, ref_len).exc # "none"
        THEN same_length(data_sets.v, ref_len)
        ELSE Return(obj_props)

AnalysisGeometry(p) ==
    Only({ validate_model(v.ok, AnalysisGeometry_check_values_align(v),
                [cls |-> "AnalysisGeometry", type |-> v.type.v,
                 identifier |-> v.identifier.v, geometry |-> v.geometry.v,
                 data_sets |-> v.data_sets.v, active_data |-> v.active_data.v])
           : v \in {AnalysisGeometry_values(p)} })

(***************************************************************************)
(* GraphicContainer                                                        *)
(***************************************************************************)
GraphicContainer_fields ==
    {"type", "values", "geometry", "min_point", "max_point",
     "legend_parameters", "data_type", "unit"}

\* geometry: Union[Mesh2D, Mesh3D, Polyface3D, List[Union[...]]].  A payload
\* g is either one dict (g.isList is FALSE) or a list of dicts.  A dict is
\* tried as Mesh2D, Mesh3D and Polyface3D, in this order; a list is tried as
\* a list whose items are each resolved in the union of the geometry
\* classes.  The value is None when no member accepts the payload.
GraphicContainer_geometry(g) ==
    Only({ IF \A i \in 1..Len(items) : items[i].exc = "none"
           THEN [isNone |-> FALSE, isList |-> g.isList,
                 v |-> IF g.isList THEN [i \in 1..Len(items) |-> items[i].obj]
                       ELSE items[1].obj]
           ELSE None
           : items \in {IF g.isList
                        THEN ListOfUnion(GEOMETRY_UNION, g, "v")
                        ELSE <<Union(<<"Mesh2D", "Mesh3D", "Polyface3D">>,
                                     g.v)>>} })

GraphicContainer_values(p) ==
  Only({
    LET tOK == type_ok("GraphicContainer", p)
        vOK == "values" \in DOMAIN p /\ Len(p.values) >= 1
        gOK == "geometry" \in DOMAIN p => ~geo.isNone
        minOK == "min_point" \in DOMAIN p
                    => FieldsOnly("Point3D", p.min_point).exc = "none"
        maxOK == "max_point" \in DOMAIN p
                    => FieldsOnly("Point3D", p.max_point).exc = "none"
    IN  [ok |-> tOK /\ vOK /\ gOK /\ minOK /\ maxOK
                  /\ NoExtraBaseModel(p, GraphicContainer_fields),
         type |-> IF tOK THEN Some(type_value("GraphicContainer", p)) ELSE None,
         values |-> IF vOK THEN Some(p.values) ELSE None,
         geometry |-> geo,
         min_point |-> IF "min_point" \in DOMAIN p /\ minOK
                       THEN Some(FieldsOnly("Point3D", p.min_point).obj)
                       ELSE None,
         max_point |-> IF "max_point" \in DOMAIN p /\ maxOK
                       THEN Some(FieldsOnly("Point3D", p.max_point).obj)
                       ELSE None]
    : geo \in {IF "geometry" \in DOMAIN p
               THEN GraphicContainer_geometry(p.geometry) ELSE None} })

\* check_values_align, the branch of a Mesh2D or Mesh3D
check_mesh(values, geo) ==
    IF values.isNone THEN Raise("TypeError", <<>>)
    ELSE IF Len(values.v) = Len(geo.faces) \/ Len(values.v) = Len(geo.vertices)
    THEN Return(<<>>)
    ELSE Raise("AssertionError",
               <<Len(values.v), Len(geo.faces), Len(geo.vertices)>>)

\* check_values_align, the branch of a Polyface3D
check_polyface_vertices_only(values, geo) ==
    IF values.isNone THEN Raise("TypeError", <<>>)
    ELSE IF Len(values.v) = Len(geo.vertices)
    THEN Return(<<>>)
    ELSE Raise("AssertionError",
               <<Len(values.v), Len(geo.face_indices), Len(geo.vertices)>>)

check_polyface(values, geo) ==
    IF values.isNone THEN Raise("TypeError", <<>>)
    ELSE IF Len(values.v) = Len(geo.face_indices)
            \/ Len(values.v) = Len(geo.vertices)
    THEN Return(<<>>)
    ELSE Raise("AssertionError",
               <<Len(values.v), Len(geo.face_indices), Len(geo.vertices)>>)

\* check_values_align, the branch of any other geometry: None (geo.isNone)
\* or a list
check_other_min_or_max(values, geo, min_point, max_point) ==
    IF ~(~min_point.isNone \/ ~max_point.isNone)
    THEN Raise("AssertionError", <<>>)
    ELSE IF ~geo.isNone /\ geo.isList
    THEN IF values.isNone THEN Raise("TypeError", <<>>)
         ELSE IF Len(values.v) = Len(geo.v) THEN Return(<<>>)
         ELSE Raise("AssertionError", <<Len(values.v), Len(geo.v)>>)
    ELSE Return(<<>>)

check_other_list_unchecked(values, geo, min_point, max_point) ==
    IF ~(~min_point.isNone /\ ~max_point.isNone)
    THEN Raise("AssertionError", <<>>)
    ELSE Return(<<>>)

check_other(values, geo, min_point, max_point) ==
    IF ~(~min_point.isNone /\ ~max_point.isNone)
    THEN Raise("AssertionError", <<>>)
    ELSE IF ~geo.isNone /\ geo.isList
    THEN IF values.isNone THEN Raise("TypeError", <<>>)
         ELSE IF Len(values.v) = Len(geo.v) THEN Return(<<>>)
         ELSE Raise("AssertionError", <<Len(values.v), Len(geo.v)>>)
    ELSE Return(<<>>)

\* GraphicContainer.check_values_align
GraphicContainer_check_values_align(obj_props) ==
    LET values == obj_props.values
        geo == obj_props.geometry
        single == ~geo.isNone /\ ~geo.isList
    IN  IF single /\ isinstance(geo.v, {"Mesh2D", "Mesh3D", "Polyface3D"})
        THEN IF isinstance(geo.v, {"Mesh2D", "Mesh3D"})
             THEN check_mesh(values, geo.v)
             ELSE check_polyface(values, geo.v)
        ELSE check_other(values, geo, obj_props.min_point, obj_props.max_point)

GraphicContainer(p) ==
    Only({ validate_model(v.ok, GraphicContainer_check_values_align(v),
                [cls |-> "GraphicContainer", type |-> v.type.v,
                 values |-> v.values.v, geometry |-> v.geometry,
                 min_point |-> v.min_point, max_point |-> v.max_point])
           : v \in {GraphicContainer_values(p)} })

(***************************************************************************)
(* ContextGeometry, VisualizationSet                                       *)
(***************************************************************************)
ContextGeometry_fields ==
    {"type", "identifier", "display_name", "user_data", "geometry", "hidden"}

\* geometry: List[DISPLAY_UNION], required
ContextGeometry(p) ==
    Only({ validate_fields(
               /\ type_ok("ContextGeometry", p)
               /\ NoExtraBaseModel(p, ContextGeometry_fields)
               /\ "identifier" \in DOMAIN p /\ identifier_valid(p.identifier)
               /\ "geometry" \in DOMAIN p
               /\ \A i \in 1..Len(geos) : geos[i].exc = "none",
               [cls |-> "ContextGeometry",
                type |-> type_value("ContextGeometry", p),
                identifier |-> p.identifier,
                geometry |-> [i \in 1..Len(geos) |-> geos[i].obj]])
           : geos \in {ListOfUnion(DISPLAY_UNION, p, "geometry")} })

VisualizationSet_fields ==
    {"type", "identifier", "display_name", "user_data", "geometry", "units"}

Units == {"Meters", "Millimeters", "Feet", "Inches", "Centimeters"}

\* geometry: List[Union[AnalysisGeometry, ContextGeometry]], default None
VisualizationSet(p) ==
    Only({ validate_fields(
               /\ type_ok("VisualizationSet", p)
               /\ NoExtraBaseModel(p, VisualizationSet_fields)
               /\ "identifier" \in DOMAIN p /\ identifier_valid(p.identifier)
               /\ \A i \in 1..Len(geos) : geos[i].exc = "none"
               /\ "units" \in DOMAIN p => p.units \in Units,
               [cls |-> "VisualizationSet",
                type |-> type_value("VisualizationSet", p),
                identifier |-> p.identifier,
                geometry |-> IF "geometry" \in DOMAIN p
                             THEN Some([i \in 1..Len(geos) |-> geos[i].obj])
                             ELSE None])
           : geos \in {ListOfUnion(<<"AnalysisGeometry", "ContextGeometry">>,
                                   p, "geometry")} })

\* LegendParameters: min and max are Union[Default, float], segment_count
\* is Union[Default, conint(ge=1)]; of the other fields, which all have a
\* default, none is modelled.
LegendParameters_fields ==
    {"type", "min", "max", "segment_count", "colors", "title",
     "continuous_legend", "ordinal_dictionary", "decimal_count",
     "include_larger_smaller", "vertical", "font", "properties_3d",
     "properties_2d", "user_data"}

LegendParameters(p) ==
    validate_fields(
        /\ type_ok("LegendParameters", p)
        /\ NoExtraBaseModel(p, LegendParameters_fields)
        /\ DefaultOrField(None, p, "min").exc = "none"
        /\ DefaultOrField(None, p, "max").exc = "none"
        /\ DefaultOrField(Some(1), p, "segment_count").exc = "none",
        [cls |-> "LegendParameters",
         type |-> type_value("LegendParameters", p),
         min |-> DefaultOrField(None, p, "min").obj,
         max |-> DefaultOrField(None, p, "max").obj,
         segment_count |-> DefaultOrField(Some(1), p, "segment_count").obj])

\* LegendParameters of the module graphic: the class has the name and the
\* type of the one of the module visualization; its segment_count is
\* Union[Default, conint(ge=2)].  Of the other fields, which all have a
\* default, none is modelled.
graphic_LegendParameters_fields ==
    {"type", "min", "max", "segment_count", "colors", "title", "base_plane",
     "continuous_legend", "ordinal_dictionary", "decimal_count",
     "include_larger_smaller", "vertical", "segment_height", "segment_width",
     "text_height", "font"}

graphic_LegendParameters_ge_one(p) ==
    validate_fields(
        /\ type_ok("LegendParameters", p)
        /\ NoExtraBaseModel(p, graphic_LegendParameters_fields)
        /\ DefaultOrField(None, p, "min").exc = "none"
        /\ DefaultOrField(None, p, "max").exc = "none"
        /\ DefaultOrField(Some(1), p, "segment_count").exc = "none",
        [cls |-> "graphic.LegendParameters",
         type |-> type_value("LegendParameters", p),
         min |-> DefaultOrField(None, p, "min").obj,
         max |-> DefaultOrField(None, p, "max").obj,
         segment_count |-> DefaultOrField(Some(1), p, "segment_count").obj])

graphic_LegendParameters(p) ==
    validate_fields(
        /\ type_ok("LegendParameters", p)
        /\ NoExtraBaseModel(p, graphic_LegendParameters_fields)
        /\ DefaultOrField(None, p, "min").exc = "none"
        /\ DefaultOrField(None, p, "max").exc = "none"
        /\ DefaultOrField(Some(2), p, "segment_count").exc = "none",
        [cls |-> "graphic.LegendParameters",
         type |-> type_value("LegendParameters", p),
         min |-> DefaultOrField(None, p, "min").obj,
         max |-> DefaultOrField(None, p, "max").obj,
         segment_count |-> DefaultOrField(Some(2), p, "segment_count").obj])

\* the name of a class: the two LegendParameters have the same name
ClassName(cls) ==
    IF cls = "graphic.LegendParameters" THEN "LegendParameters" ELSE cls

\* Legend2DParameters: origin_x, origin_y, segment_height, segment_width
\* and text_height are Union[Default, constr(regex=r'^\d*px|\d*%$')].  A
\* string is a sequence of characters.
Digits == {"0", "1", "5"}

\* the number of digits a string starts with
RECURSIVE leading_digits(_)
leading_digits(s) ==
    IF s # <<>> /\ Head(s) \in Digits THEN 1 + leading_digits(Tail(s)) ELSE 0

\* re.match(r'^\d*px|\d*%$', s).  The pattern is the alternation of
\* `^\d*px` and `\d*%$`, and re.match tries both at the start of the
\* string: the first accepts digits (none or more) followed by px, whatever
\* follows; the second accepts digits (none or more) followed by % at the
\* end of the string, or just before a newline that ends it.
px_or_percent(s) ==
    LET d == leading_digits(s)
    IN  \/ Len(s) >= d + 2 /\ s[d + 1] = "p" /\ s[d + 2] = "x"
        \/ /\ Len(s) >= d + 1 /\ s[d + 1] = "%"
           /\ \/ Len(s) = d + 1
              \/ Len(s) = d + 2 /\ s[d + 2] = "\n"

\* A field declared Union[Default, constr(regex=...)]: the payload x is a
\* JSON object (tried as Default) or a string (matched against the regex);
\* the key left out gives Default
DefaultOrStr(p, k) ==
    IF k \notin DOMAIN p THEN Return([isDefault |-> TRUE, v |-> Default])
    ELSE IF p[k].json = "object"
    THEN IF type_ok("Default", p[k].v) /\ NoExtraBaseModel(p[k].v, {"type"})
         THEN Return([isDefault |-> TRUE, v |-> Default])
         ELSE Raise("ValidationError", <<>>)
    ELSE IF px_or_percent(p[k].v)
         THEN Return([isDefault |-> FALSE, v |-> p[k].v])
         ELSE Raise("ValidationError", <<>>)

Legend2DParameters_strings ==
    {"origin_x", "origin_y", "segment_height", "segment_width", "text_height"}

Legend2DParameters(p) ==
    validate_fields(
        /\ type_ok("Legend2DParameters", p)
        /\ NoExtraBaseModel(p, {"type"} \cup Legend2DParameters_strings)
        /\ \A k \in Legend2DParameters_strings : DefaultOrStr(p, k).exc = "none",
        [cls |-> "Legend2DParameters",
         type |-> type_value("Legend2DParameters", p),
         fields |-> [k \in Legend2DParameters_strings |-> DefaultOrStr(p, k).obj]])

\* DisplayText3D, a member of DISPLAY_UNION: a display class with a type
\* tag; of its payload only the type key is modelled.
DisplayText3D(p) ==
    validate_fields(type_ok("DisplayText3D", p) /\ NoExtraBaseModel(p, {"type"}),
                    [cls |-> "DisplayText3D",
                     type |-> type_value("DisplayText3D", p)])

(***************************************************************************)
(* Construction by class name                                              *)
(***************************************************************************)
\* The classes whose fields all have a default (type included) and of
\* whose payloads only the type key is modelled: Default, the 3D legend
\* parameters, VisualizationMetaData.
AllOptional == {"Default", "Legend3DParameters", "VisualizationMetaData"}

Construct(cls, p) ==
    CASE cls = "Mesh2D" -> Mesh2D(p)
      [] cls = "Mesh3D" -> Mesh3D(p)
      [] cls = "Polyface3D" -> Polyface3D(p)
      [] cls = "PolyfaceEdgeInfo" ->
            validate_fields(PolyfaceEdgeInfo_valid(p),
                            [cls |-> cls, fields |-> p])
      [] cls = "Color" ->
            validate_fields(Color_valid(p), Color_object(p))
      [] cls \in FieldsOnlyClasses -> FieldsOnly(cls, p)
      [] cls \in DOMAIN DisplayGeometry -> SingleColorBase(cls, p)
      [] cls = "DisplayMesh2D" -> DisplayMesh2D(p)
      [] cls = "DisplayMesh3D" -> DisplayMesh3D(p)
      [] cls = "DisplayPolyface3D" -> DisplayPolyface3D(p)
      [] cls = "VisualizationData" -> VisualizationData(p)
      [] cls = "AnalysisGeometry" -> AnalysisGeometry(p)
      [] cls = "ContextGeometry" -> ContextGeometry(p)
      [] cls = "VisualizationSet" -> VisualizationSet(p)
      [] cls = "GraphicContainer" -> GraphicContainer(p)
      [] cls = "DisplayText3D" -> DisplayText3D(p)
      [] cls = "LegendParameters" -> LegendParameters(p)
      [] cls = "graphic.LegendParameters" -> graphic_LegendParameters(p)
      [] cls = "Legend2DParameters" -> Legend2DParameters(p)
      [] cls \in AllOptional ->
            validate_fields(type_ok(cls, p) /\ NoExtraBaseModel(p, {"type"}),
                            [cls |-> cls, type |-> type_value(cls, p)])

(***************************************************************************)
(* Serialization: obj.dict(), the JSON object of an entity.  Every field   *)
(* that holds a value is emitted with the value the entity holds, the      *)
(* type field as any other; a field that holds None is emitted as null,    *)
(* which a parser reads as the key being left out, and is written here as  *)
(* no key.                                                                 *)
(***************************************************************************)
\* a Color
Color_dict(c) == [type |-> c.type] @@ c.fields

\* a list of Color
ColorList_dict(cs) == [i \in 1..Len(cs) |-> Color_dict(cs[i])]

\* a Plane
Plane_dict(pl) ==
    [type |-> pl.type, n |-> pl.fields.n, o |-> pl.fields.o]
    @@ (IF pl.fields.x.isNone THEN Absent ELSE "x" :> pl.fields.x.v)

\* an object of a class that only declares fields
FieldsOnly_dict(obj) ==
    LET d == Declared(obj.cls)
        kinds == d.req @@ d.opt
        boxed == DOMAIN d.opt \cap {"x", "holes", "plane"}
        held == {k \in DOMAIN kinds : k \in boxed => ~obj.fields[k].isNone}
    IN  [type |-> obj.type]
        @@ [k \in held |->
              IF kinds[k] = "Plane"
              THEN Plane_dict(IF k \in boxed THEN obj.fields[k].v
                              ELSE obj.fields[k])
              ELSE IF k \in boxed THEN obj.fields[k].v ELSE obj.fields[k]]

\* a Mesh2D or Mesh3D: the colors are emitted when the mesh holds any
Mesh_dict_no_colors(obj) ==
    [type |-> obj.type, vertices |-> obj.vertices, faces |-> obj.faces]

Mesh_dict(obj) ==
    [type |-> obj.type, vertices |-> obj.vertices, faces |-> obj.faces]
    @@ (IF obj.colors.isNone THEN Absent
        ELSE "colors" :> ColorList_dict(obj.colors.v))

\* a Polyface3D: PolyfaceEdgeInfo declares no type field, so that the JSON
\* object of edge_information has the keys edge_indices and edge_types only
Polyface3D_dict(obj) ==
    [type |-> obj.type, vertices |-> obj.vertices,
     face_indices |-> obj.face_indices]
    @@ (IF obj.edge_information.isNone THEN Absent
        ELSE "edge_information" :> obj.edge_information.v.fields)

\* the value of a field declared Union[Default, T]: the JSON object of the
\* Default it holds, or the number it holds
DefaultOr_dict_unset_as_zero(x) ==
    IF x.isDefault THEN [json |-> "number", v |-> 0]
    ELSE [json |-> "number", v |-> x.v]

DefaultOr_dict(x) ==
    IF x.isDefault THEN [json |-> "object", v |-> [type |-> x.v.type]]
    ELSE [json |-> "number", v |-> x.v]

\* the value of a field declared Union[Default, constr(...)]: the JSON
\* object of the Default it holds, or the string it holds
DefaultOrStr_dict(x) ==
    IF x.isDefault THEN [json |-> "object", v |-> [type |-> x.v.type]]
    ELSE [json |-> "string", v |-> x.v]

\* obj.dict(), by the class of obj; the entities an entity holds are
\* emitted the same way, at every depth
RECURSIVE dict(_)
dict(obj) ==
    CASE obj.cls = "Color" -> Color_dict(obj)
      [] obj.cls = "PolyfaceEdgeInfo" -> obj.fields
      [] obj.cls \in FieldsOnlyClasses -> FieldsOnly_dict(obj)
      [] obj.cls \in {"Mesh2D", "Mesh3D"} -> Mesh_dict(obj)
      [] obj.cls = "Polyface3D" -> Polyface3D_dict(obj)
      [] obj.cls \in DOMAIN DisplayGeometry ->
            [type |-> obj.type, color |-> Color_dict(obj.color),
             geometry |-> dict(obj.geometry)]
            @@ (IF SingleColor_default_or(obj.cls) = "" THEN Absent
                ELSE SingleColor_default_or(obj.cls)
                       :> DefaultOr_dict(obj[SingleColor_default_or(obj.cls)]))
      [] obj.cls \in {"DisplayMesh2D", "DisplayMesh3D", "DisplayPolyface3D"} ->
            [type |-> obj.type, geometry |-> dict(obj.geometry),
             colors |-> ColorList_dict(obj.colors)]
      [] obj.cls = "VisualizationData" ->
            [type |-> obj.type, values |-> obj.values]
      [] obj.cls = "AnalysisGeometry" ->
            [type |-> obj.type, identifier |-> obj.identifier,
             geometry |-> [i \in 1..Len(obj.geometry) |-> dict(obj.geometry[i])],
             data_sets |-> [i \in 1..Len(obj.data_sets) |->
                              dict(obj.data_sets[i])],
             active_data |-> obj.active_data]
      [] obj.cls = "GraphicContainer" ->
            [type |-> obj.type, values |-> obj.values]
            @@ (IF obj.geometry.isNone THEN Absent
                ELSE "geometry" :>
                       [isList |-> obj.geometry.isList,
                        v |-> IF obj.geometry.isList
                              THEN [i \in 1..Len(obj.geometry.v) |->
                                      dict(obj.geometry.v[i])]
                              ELSE dict(obj.geometry.v)])
            @@ (IF obj.min_point.isNone THEN Absent
                ELSE "min_point" :> FieldsOnly_dict(obj.min_point.v))
            @@ (IF obj.max_point.isNone THEN Absent
                ELSE "max_point" :> FieldsOnly_dict(obj.max_point.v))
      [] obj.cls = "ContextGeometry" ->
            [type |-> obj.type, identifier |-> obj.identifier,
             geometry |-> [i \in 1..Len(obj.geometry) |-> dict(obj.geometry[i])]]
      [] obj.cls = "VisualizationSet" ->
            [type |-> obj.type, identifier |-> obj.identifier]
            @@ (IF obj.geometry.isNone THEN Absent
                ELSE "geometry" :>
                       [i \in 1..Len(obj.geometry.v) |-> dict(obj.geometry.v[i])])
      [] obj.cls \in {"LegendParameters", "graphic.LegendParameters"} ->
            [type |-> obj.type, min |-> DefaultOr_dict(obj.min),
             max |-> DefaultOr_dict(obj.max),
             segment_count |-> DefaultOr_dict(obj.segment_count)]
      [] obj.cls = "Legend2DParameters" ->
            [type |-> obj.type]
            @@ [k \in Legend2DParameters_strings |->
                  DefaultOrStr_dict(obj.fields[k])]
      [] OTHER -> [type |-> obj.type]

(***************************************************************************)
(* Inputs                                                                  *)
(***************************************************************************)
\* a valid Color payload
AColor == [r |-> 0, g |-> 0, b |-> 0]

\* The payload of a mesh of class cls (the type key is present iff tagged)
\* with nv vertices of d coordinates, nf triangular faces and nc colors
\* (no colors key when nc is -1).
MeshPayload(tagged, cls, d, nv, nf, nc) ==
    Opt(tagged, "type", Str(cls))
    @@ [vertices |-> Rep(nv, Rep(d, 0)), faces |-> Rep(nf, <<0, 1, 2>>)]
    @@ Opt(nc >= 0, "colors", Rep(nc, AColor))

\* The payload of a polyface with nv vertices and nf faces
PolyfacePayload(tagged, nv, nf) ==
    Opt(tagged, "type", Str("Polyface3D"))
    @@ [vertices |-> Rep(nv, Rep(3, 0)),
        face_indices |-> Rep(nf, << <<0, 1, 2>> >>)]

APoint3D == [type |-> Str("Point3D"), x |-> 0, y |-> 0, z |-> 0]

\* The entity classes
EntityClasses ==
    FieldsOnlyClasses \cup DOMAIN DisplayGeometry \cup AllOptional
    \cup {"Color", "Mesh2D", "Mesh3D", "PolyfaceEdgeInfo", "Polyface3D",
          "DisplayMesh2D", "DisplayMesh3D", "DisplayPolyface3D",
          "VisualizationData", "AnalysisGeometry", "ContextGeometry",
          "VisualizationSet", "GraphicContainer", "LegendParameters",
          "Legend2DParameters"}

\* A payload of class cls without type key, every field of which is valid
RECURSIVE ValidFields(_)
ValidFields(cls) ==
    CASE cls \in {"Vector2D", "Point2D"} -> [x |-> 0, y |-> 0]
      [] cls \in {"Ray2D", "LineSegment2D"} -> [p |-> <<0, 0>>, v |-> <<0, 0>>]
      [] cls \in {"Polyline2D", "Polygon2D"} -> [vertices |-> Rep(3, <<0, 0>>)]
      [] cls = "Arc2D" -> [c |-> <<0, 0>>, r |-> 0]
      [] cls = "Mesh2D" -> MeshPayload(FALSE, cls, 2, 3, 1, -1)
      [] cls \in {"Vector3D", "Point3D"} -> [x |-> 0, y |-> 0, z |-> 0]
      [] cls \in {"Ray3D", "LineSegment3D"} ->
            [p |-> <<0, 0, 0>>, v |-> <<0, 0, 0>>]
      [] cls = "Plane" -> [n |-> <<0, 0, 0>>, o |-> <<0, 0, 0>>]
      [] cls = "Polyline3D" -> [vertices |-> Rep(3, <<0, 0, 0>>)]
      [] cls = "Arc3D" -> [plane |-> ValidFields("Plane"), radius |-> 0]
      [] cls = "Face3D" -> [boundary |-> Rep(3, <<0, 0, 0>>)]
      [] cls = "Mesh3D" -> MeshPayload(FALSE, cls, 3, 3, 1, -1)
      [] cls = "Polyface3D" -> PolyfacePayload(FALSE, 3, 1)
      [] cls = "Sphere" -> [center |-> <<0, 0, 0>>, radius |-> 1]
      [] cls = "Cone" ->
            [vertex |-> <<0, 0, 0>>, axis |-> <<0, 0, 0>>, angle |-> 1]
      [] cls = "Cylinder" ->
            [center |-> <<0, 0, 0>>, axis |-> <<0, 0, 0>>, radius |-> 1]
      [] cls = "DataType" -> [data_type |-> "AirSpeed", name |-> "speed"]
      [] cls = "GenericDataType" -> [name |-> "speed", base_unit |-> "m/s"]
      [] cls = "Color" -> AColor
      [] cls = "PolyfaceEdgeInfo" ->
            [edge_indices |-> Rep(3, <<0, 1>>), edge_types |-> Rep(3, 0)]
      [] cls \in DOMAIN DisplayGeometry ->
            [color |-> AColor, geometry |-> ValidFields(DisplayGeometry[cls])]
      [] cls = "DisplayMesh2D" ->
            [colors |-> <<AColor>>, geometry |-> ValidFields("Mesh2D")]
      [] cls = "DisplayMesh3D" ->
            [colors |-> <<AColor>>, geometry |-> ValidFields("Mesh3D")]
      [] cls = "DisplayPolyface3D" ->
            [colors |-> <<AColor>>, geometry |-> ValidFields("Polyface3D")]
      [] cls = "VisualizationData" -> [values |-> <<0>>]
      [] cls = "AnalysisGeometry" ->
            [identifier |-> <<"a">>, geometry |-> <<APoint3D>>,
             data_sets |-> <<[values |-> <<0>>]>>]
      [] cls = "ContextGeometry" ->
            [identifier |-> <<"a">>,
             geometry |-> <<[type |-> Str("DisplayPoint3D"), color |-> AColor,
                             geometry |-> APoint3D]>>]
      [] cls = "VisualizationSet" -> [identifier |-> <<"a">>]
      [] cls = "GraphicContainer" ->
            [values |-> <<0>>, min_point |-> APoint3D, max_point |-> APoint3D]
      [] cls \in AllOptional \cup {"DisplayText3D", "LegendParameters",
                                   "Legend2DParameters"} -> Absent

\* The strings tried as type of a payload of class cls: the name, the name
\* followed by a newline or by another character, the name after another
\* character, and the name of another class
TypeStrings(cls) ==
    {<<cls>>, <<cls, "\n">>, <<cls, "x">>, <<"x", cls>>,
     <<IF cls = "Point2D" THEN "Vector2D" ELSE "Point2D">>}

\* The unions of the fields declared with Union
Unions ==
    [GEOMETRY_UNION |-> GEOMETRY_UNION,
     DISPLAY_UNION |-> DISPLAY_UNION,
     VisualizationSet_geometry |-> <<"AnalysisGeometry", "ContextGeometry">>,
     data_type |-> <<"DataType", "GenericDataType">>]

\* The geometry items the calls with a list of geometries are made of: a
\* point, a polyface, and meshes of both dimensions with nv vertices and nf
\* faces (a mesh of 2 vertices is not a valid mesh).
GeoItems ==
    {[k |-> "Point3D", nv |-> 0, nf |-> 0],
     [k |-> "Polyface3D", nv |-> 3, nf |-> 2],
     [k |-> "Mesh2D", nv |-> 2, nf |-> 1],
     [k |-> "Mesh2D", nv |-> 3, nf |-> 1],
     [k |-> "Mesh3D", nv |-> 4, nf |-> 2]}

GeoPayload(g) ==
    CASE g.k = "Point3D" -> [type |-> Str("Point3D"), x |-> 0, y |-> 0, z |-> 0]
      [] g.k = "Polyface3D" -> PolyfacePayload(TRUE, g.nv, g.nf)
      [] g.k = "Mesh2D" -> MeshPayload(TRUE, "Mesh2D", 2, g.nv, g.nf, -1)
      [] g.k = "Mesh3D" -> MeshPayload(TRUE, "Mesh3D", 3, g.nv, g.nf, -1)

\* the lists of at most n items of S
ListsOf(S, n) == UNION {[1..k -> S] : k \in 0..n}

(***************************************************************************)
(* The calls and the actions carrying them out                             *)
(***************************************************************************)
MeshCalls ==
    { [op |-> c, tagged |-> t, d |-> d, nv |-> nv, nf |-> nf, nc |-> nc] :
        c \in {"Mesh2D", "Mesh3D"}, t \in BOOLEAN, d \in 2..3,
        nv \in 2..MaxVerts, nf \in 0..MaxFaces, nc \in (-1)..MaxColors }

DisplayMeshCalls ==
    { [op |-> c, nv |-> nv, nf |-> nf, nc |-> nc] :
        c \in {"DisplayMesh2D", "DisplayMesh3D", "DisplayPolyface3D"},
        nv \in 2..MaxVerts, nf \in 0..MaxFaces, nc \in (-1)..MaxColors }

\* AnalysisGeometry(identifier, geometry, data_sets): geos are the geometry
\* items, lens the lengths of the values of each data set
AnalysisGeometryCalls ==
    { [op |-> "AnalysisGeometry", geos |-> gs, lens |-> ls] :
        gs \in ListsOf(GeoItems, MaxGeos),
        ls \in ListsOf(0..MaxValues, MaxDataSets) }

\* GraphicContainer(values, geometry, min_point, max_point): nval values;
\* geometry is left out (shape "none"), one geometry item (shape "one", the
\* item is geos[1]) or a list of items (shape "list"); pmin and pmax tell
\* whether min_point and max_point are given
GraphicContainerCalls ==
    { [op |-> "GraphicContainer", nval |-> n, shape |-> "list", geos |-> gs,
       pmin |-> a, pmax |-> b] :
        n \in 0..MaxValues, gs \in ListsOf(GeoItems, MaxGeos),
        a \in BOOLEAN, b \in BOOLEAN }
    \cup
    { [op |-> "GraphicContainer", nval |-> n, shape |-> "one", geos |-> <<g>>,
       pmin |-> a, pmax |-> b] :
        n \in 0..MaxValues, g \in GeoItems, a \in BOOLEAN, b \in BOOLEAN }
    \cup
    { [op |-> "GraphicContainer", nval |-> n, shape |-> "none", geos |-> <<>>,
       pmin |-> a, pmax |-> b] :
        n \in 0..MaxValues, a \in BOOLEAN, b \in BOOLEAN }

\* cls(**payload), the payload being valid but for its type key, which is
\* left out or one of the strings of TypeStrings
EntityCalls ==
    { [op |-> "Entity", cls |-> c, tagged |-> FALSE, tag |-> <<>>] :
        c \in EntityClasses }
    \cup
    { [op |-> "Entity", cls |-> ct[1], tagged |-> TRUE, tag |-> ct[2]] :
        ct \in UNION {{<<c, t>> : t \in TypeStrings(c)} : c \in EntityClasses} }

\* One element of a field declared with the union u: the payload has the
\* fields of the member `shape`; its type key is left out, or names a
\* member of the union, possibly followed by a newline, or is a string that
\* names no class
UnionCalls ==
    { [op |-> "Union", union |-> ush[1], shape |-> ush[2],
       tagged |-> FALSE, tag |-> <<>>] :
        ush \in UNION {{<<u, Unions[u][i]>> : i \in 1..Len(Unions[u])} :
                         u \in DOMAIN Unions} }
    \cup
    { [op |-> "Union", union |-> ush[1], shape |-> ush[2],
       tagged |-> TRUE, tag |-> ush[3]] :
        ush \in UNION {{<<u, Unions[u][i], t>> :
                           i \in 1..Len(Unions[u]),
                           t \in {<<"Unknown">>} \cup
                                 UNION {{<<Unions[u][j]>>, <<Unions[u][j], "\n">>} :
                                          j \in 1..Len(Unions[u])}} :
                         u \in DOMAIN Unions} }

\* The fields declared Union[Default, T], with their class and the lower
\* bound of T
DefaultOrFields ==
    {[cls |-> c, field |-> "line_width", ge |-> Some(0)] : c \in LineCurveBase}
    \cup {[cls |-> "DisplayPoint2D", field |-> "radius", ge |-> Some(0)],
          [cls |-> "LegendParameters", field |-> "segment_count", ge |-> Some(1)]}

\* The same for T without lower bound
DefaultOrUnbounded ==
    {[cls |-> "LegendParameters", field |-> f] : f \in {"min", "max"}}

\* cls(**payload), the payload being valid and its field `field`, declared
\* Union[Default, T], being given as: "absent" (no key), "Default" (the dict
\* of a Default), "empty" (the dict {}), "newline" and "Unknown" (a dict
\* with another type), "number" (the number n)
DefaultOrCalls ==
    { [op |-> "DefaultOr", cls |-> f.cls, field |-> f.field, given |-> g,
       n |-> n] :
        f \in {[cls |-> x.cls, field |-> x.field] : x \in DefaultOrFields}
                \cup DefaultOrUnbounded,
        g \in {"absent", "Default", "empty", "newline", "Unknown", "number"},
        n \in (-1)..MaxNumber }

\* the payload of the field of a DefaultOr call
DefaultOrGiven(c) ==
    CASE c.given = "Default" -> [json |-> "object", v |-> [type |-> Str("Default")]]
      [] c.given = "empty" -> [json |-> "object", v |-> Absent]
      [] c.given = "newline" ->
            [json |-> "object", v |-> [type |-> <<"Default", "\n">>]]
      [] c.given = "Unknown" -> [json |-> "object", v |-> [type |-> Str("Unknown")]]
      [] c.given = "number" -> [json |-> "number", v |-> c.n]

\* The classes with a list of vertices, with the field that holds it and
\* the number of coordinates of a vertex
VertexLists ==
    {[cls |-> "Polyline2D", field |-> "vertices", d |-> 2],
     [cls |-> "Polygon2D", field |-> "vertices", d |-> 2],
     [cls |-> "Mesh2D", field |-> "vertices", d |-> 2],
     [cls |-> "Polyline3D", field |-> "vertices", d |-> 3],
     [cls |-> "Face3D", field |-> "boundary", d |-> 3],
     [cls |-> "Mesh3D", field |-> "vertices", d |-> 3],
     [cls |-> "Polyface3D", field |-> "vertices", d |-> 3]}

\* cls(**payload), the payload being valid but for its list of vertices,
\* which has n vertices
VertexCalls ==
    { [op |-> "Vertices", cls |-> l.cls, field |-> l.field, d |-> l.d, n |-> n] :
        l \in VertexLists, n \in 0..MaxVerts }

\* Faces of a mesh: of 2 to 5 indices, and triangles whose last index runs
\* from -1 to past the number of vertices
Faces ==
    {<<0, 1>>, <<0, 1, 2>>, <<0, 1, 2, 0>>, <<0, 1, 2, 0, 1>>}
    \cup {<<0, 1, i>> : i \in (-1)..(MaxVerts + 1)}

\* cls(**payload) for a mesh of nv vertices with the one face `face`
FaceCalls ==
    { [op |-> "Faces", cls |-> c, nv |-> nv, face |-> fc] :
        c \in {"Mesh2D", "Mesh3D"}, nv \in 3..MaxVerts, fc \in Faces }

\* Polyface3D(**payload), the payload being valid and its edge_information
\* having ni edge_indices and nt edge_types
EdgeCalls ==
    { [op |-> "Edges", ni |-> ni, nt |-> nt] :
        ni \in 2..MaxEdges, nt \in 2..MaxEdges }

\* The keys no class declares as a field
ExtraKeys == {"extra", "id"}

\* cls(**payload), the payload being valid (with or without its type key)
\* but for one more key, which the class does not declare
ExtraCalls ==
    { [op |-> "Extra", cls |-> ct[1], tagged |-> ct[2], tag |-> Str(ct[1]),
       key |-> k] :
        ct \in (EntityClasses \X {FALSE}) \cup ((EntityClasses \ Untyped) \X {TRUE}),
        k \in ExtraKeys }

\* GenericDataType(**payload), the payload being valid, with each of the
\* flags point_in_time and cumulative left out or given as a boolean
FlagValues == {"absent", "true", "false"}
GenericDataTypeCalls ==
    { [op |-> "GenericDataType", point_in_time |-> a, cumulative |-> b] :
        a \in FlagValues, b \in FlagValues }

\* LegendParameters(**payload) of the module visualization or graphic, the
\* payload having the key segment_count only, given as the dict of a
\* Default or as the number n
SegmentCountCalls ==
    { [op |-> "SegmentCount", cls |-> c, given |-> g, n |-> n] :
        c \in {"LegendParameters", "graphic.LegendParameters"},
        g \in {"Default", "number"}, n \in (-1)..(MaxNumber + 1) }

\* DisplayModes.name: the value of the member of the enumeration that has
\* this name; the lookup of a name that is no member raises AttributeError
DisplayModes_member(name) ==
    CASE name = "surface" -> Return("Surface")
      [] name = "surface_with_edges" -> Return("SurfaceWithEdges")
      [] name = "wireframe" -> Return("Wireframe")
      [] name = "points" -> Return("Points")
      [] OTHER -> Raise("AttributeError", <<>>)

\* The default a class declares for its field display_mode:
\* DisplayModes.surface in display2d and visualization, DisplayModes.shaded
\* in display3d
display_mode_default(cls) ==
    IF cls \in {"DisplayMesh2D", "AnalysisGeometry"}
    THEN DisplayModes_member("surface")
    ELSE DisplayModes_member("shaded")

\* The classes that declare display_mode, and the ones that declare
\* interpolated
DisplayModeClasses ==
    {"DisplayMesh2D", "DisplayFace3D", "DisplayMesh3D", "DisplayPolyface3D",
     "DisplaySphere", "DisplayCone", "DisplayCylinder", "AnalysisGeometry"}
InterpolatedClasses == {"Polyline2D", "Polyline3D"}

\* The default of the field of a class, which an entity built from a
\* payload without the field takes
FieldDefaultCalls ==
    { [op |-> "FieldDefault", cls |-> c, field |-> "display_mode"] :
        c \in DisplayModeClasses }
    \cup
    { [op |-> "FieldDefault", cls |-> c, field |-> "interpolated"] :
        c \in InterpolatedClasses }

\* The strings given to a field of Legend2DParameters
Strings ==
    {<<"1", "0", "p", "x">>, <<"5", "%">>, <<"p", "x">>, <<"%">>,
     <<"1", "0">>, <<>>, <<"p">>,
     <<"a", "1", "0", "p", "x">>, <<"a", "5", "%">>,
     <<"1", "0", "p", "x", "a">>, <<"5", "%", "a">>,
     <<"1", "0", "p", "x", "\n">>, <<"5", "%", "\n">>,
     <<"1", "0", "%", "p", "x">>, <<"1", "0", "p", "x", "%">>}

\* Legend2DParameters(**payload), the payload having one key: a field
\* declared with the regex, given as the string s
Legend2DCalls ==
    { [op |-> "Legend2D", field |-> f, s |-> s] :
        f \in Legend2DParameters_strings, s \in Strings }

\* AnalysisGeometry(identifier, geometry, data_sets, active_data): one
\* point, n data sets of one value each, and active_data given as active
ActiveDataCalls ==
    { [op |-> "ActiveData", n |-> n, active |-> a] :
        n \in 1..MaxDataSets, a \in (-1)..(MaxDataSets + 1) }

Init ==
    /\ pc = "call"
    /\ call \in MeshCalls \cup DisplayMeshCalls \cup AnalysisGeometryCalls
                  \cup GraphicContainerCalls \cup EntityCalls \cup UnionCalls
                  \cup DefaultOrCalls \cup ExtraCalls
                  \cup VertexCalls \cup FaceCalls \cup EdgeCalls
                  \cup GenericDataTypeCalls
                  \cup SegmentCountCalls
                  \cup FieldDefaultCalls
                  \cup Legend2DCalls
                  \cup ActiveDataCalls
    /\ result = Return(<<>>)
    /\ wire = None
    /\ parsed = None

ParseMesh2D ==
    /\ pc = "call" /\ call.op = "Mesh2D"
    /\ result' = Mesh2D(MeshPayload(call.tagged, "Mesh2D", call.d, call.nv,
                                    call.nf, call.nc))
    /\ pc' = "done"
    /\ UNCHANGED <<call, wire, parsed>>

ParseMesh3D ==
    /\ pc = "call" /\ call.op = "Mesh3D"
    /\ result' = Mesh3D(MeshPayload(call.tagged, "Mesh3D", call.d, call.nv,
                                    call.nf, call.nc))
    /\ pc' = "done"
    /\ UNCHANGED <<call, wire, parsed>>

ParseDisplayMesh2D ==
    /\ pc = "call" /\ call.op = "DisplayMesh2D"
    /\ result' = DisplayMesh2D(
           [geometry |-> MeshPayload(TRUE, "Mesh2D", 2, call.nv, call.nf, -1)]
           @@ Opt(call.nc >= 0, "colors", Rep(call.nc, AColor)))
    /\ pc' = "done"
    /\ UNCHANGED <<call, wire, parsed>>

ParseDisplayMesh3D ==
    /\ pc = "call" /\ call.op = "DisplayMesh3D"
    /\ result' = DisplayMesh3D(
           [geometry |-> MeshPayload(TRUE, "Mesh3D", 3, call.nv, call.nf, -1)]
           @@ Opt(call.nc >= 0, "colors", Rep(call.nc, AColor)))
    /\ pc' = "done"
    /\ UNCHANGED <<call, wire, parsed>>

ParseDisplayPolyface3D ==
    /\ pc = "call" /\ call.op = "DisplayPolyface3D"
    /\ result' = DisplayPolyface3D(
           [geometry |-> PolyfacePayload(TRUE, call.nv, call.nf)]
           @@ Opt(call.nc >= 0, "colors", Rep(call.nc, AColor)))
    /\ pc' = "done"
    /\ UNCHANGED <<call, wire, parsed>>

\* the payload of an AnalysisGeometry call
AnalysisGeometryPayload(c) ==
    [identifier |-> <<"a">>,
     geometry |-> [i \in 1..Len(c.geos) |-> GeoPayload(c.geos[i])],
     data_sets |-> [i \in 1..Len(c.lens) |-> [values |-> Rep(c.lens[i], 0)]]]

ParseAnalysisGeometry ==
    /\ pc = "call" /\ call.op = "AnalysisGeometry"
    /\ \E p \in {AnalysisGeometryPayload(call)} : result' = AnalysisGeometry(p)
    /\ pc' = "done"
    /\ UNCHANGED <<call, wire, parsed>>

\* the payload of a GraphicContainer call
GraphicContainerPayload(c) ==
    [values |-> Rep(c.nval, 0)]
    @@ Opt(c.shape = "one", "geometry",
           [isList |-> FALSE, v |-> GeoPayload(c.geos[1])])
    @@ Opt(c.shape = "list", "geometry",
           [isList |-> TRUE,
            v |-> [i \in 1..Len(c.geos) |-> GeoPayload(c.geos[i])]])
    @@ Opt(c.pmin, "min_point", APoint3D)
    @@ Opt(c.pmax, "max_point", APoint3D)

ParseGraphicContainer ==
    /\ pc = "call" /\ call.op = "GraphicContainer"
    /\ \E p \in {GraphicContainerPayload(call)} : result' = GraphicContainer(p)
    /\ pc' = "done"
    /\ UNCHANGED <<call, wire, parsed>>

\* the payload of an Entity or Union call: the valid fields of a class and
\* the type key of the call
TaggedPayload(c, cls) == Opt(c.tagged, "type", c.tag) @@ ValidFields(cls)

ParseEntity ==
    /\ pc = "call" /\ call.op = "Entity"
    /\ \E p \in {TaggedPayload(call, call.cls)} :
          result' = Construct(call.cls, p)
    /\ pc' = "done"
    /\ UNCHANGED <<call, wire, parsed>>

ParseExtraKey ==
    /\ pc = "call" /\ call.op = "Extra"
    /\ \E p \in {TaggedPayload(call, call.cls) @@ (call.key :> 0)} :
          result' = Construct(call.cls, p)
    /\ pc' = "done"
    /\ UNCHANGED <<call, wire, parsed>>

ParseVertices ==
    /\ pc = "call" /\ call.op = "Vertices"
    /\ \E p \in {(call.field :> Rep(call.n, Rep(call.d, 0)))
                    @@ ValidFields(call.cls)} :
          result' = Construct(call.cls, p)
    /\ pc' = "done"
    /\ UNCHANGED <<call, wire, parsed>>

ParseFaces ==
    /\ pc = "call" /\ call.op = "Faces"
    /\ \E p \in {[vertices |-> Rep(call.nv,
                                     Rep(IF call.cls = "Mesh2D" THEN 2 ELSE 3, 0)),
                    faces |-> <<call.face>>]} :
          result' = Construct(call.cls, p)
    /\ pc' = "done"
    /\ UNCHANGED <<call, wire, parsed>>

ParseEdges ==
    /\ pc = "call" /\ call.op = "Edges"
    /\ \E p \in {ValidFields("Polyface3D")
                    @@ [edge_information |->
                          [edge_indices |-> Rep(call.ni, <<0, 1>>),
                           edge_types |-> Rep(call.nt, 0)]]} :
          result' = Construct("Polyface3D", p)
    /\ pc' = "done"
    /\ UNCHANGED <<call, wire, parsed>>

ParseGenericDataType ==
    /\ pc = "call" /\ call.op = "GenericDataType"
    /\ \E p \in {ValidFields("GenericDataType")
                    @@ Opt(call.point_in_time # "absent", "point_in_time",
                           call.point_in_time = "true")
                    @@ Opt(call.cumulative # "absent", "cumulative",
                           call.cumulative = "true")} :
          result' = Construct("GenericDataType", p)
    /\ pc' = "done"
    /\ UNCHANGED <<call, wire, parsed>>

ParseSegmentCount ==
    /\ pc = "call" /\ call.op = "SegmentCount"
    /\ \E p \in {[segment_count |-> DefaultOrGiven(call)]} :
          result' = Construct(call.cls, p)
    /\ pc' = "done"
    /\ UNCHANGED <<call, wire, parsed>>

FieldDefault ==
    /\ pc = "call" /\ call.op = "FieldDefault"
    /\ result' = IF call.field = "display_mode"
                 THEN display_mode_default(call.cls)
                 ELSE Return(Declared(call.cls).def.interpolated)
    /\ pc' = "read"
    /\ UNCHANGED <<call, wire, parsed>>

ParseLegend2D ==
    /\ pc = "call" /\ call.op = "Legend2D"
    /\ \E p \in {call.field :> [json |-> "string", v |-> call.s]} :
          result' = Construct("Legend2DParameters", p)
    /\ pc' = "done"
    /\ UNCHANGED <<call, wire, parsed>>

ParseActiveData ==
    /\ pc = "call" /\ call.op = "ActiveData"
    /\ \E p \in {AnalysisGeometryPayload(
                    [geos |-> <<[k |-> "Point3D", nv |-> 0, nf |-> 0]>>,
                     lens |-> Rep(call.n, 1)])
                 @@ [active_data |-> call.active]} :
          result' = AnalysisGeometry(p)
    /\ pc' = "done"
    /\ UNCHANGED <<call, wire, parsed>>

ParseDefaultOr ==
    /\ pc = "call" /\ call.op = "DefaultOr"
    /\ \E p \in {ValidFields(call.cls)
                  @@ Opt(call.given # "absent", call.field, DefaultOrGiven(call))} :
          result' = Construct(call.cls, p)
    /\ pc' = "done"
    /\ UNCHANGED <<call, wire, parsed>>

ResolveUnion ==
    /\ pc = "call" /\ call.op = "Union"
    /\ \E p \in {TaggedPayload(call, call.shape)} :
          result' = Union(Unions[call.union], p)
    /\ pc' = "done"
    /\ UNCHANGED <<call, wire, parsed>>

\* The attributes an assignment is tried on, and the value assigned: a
\* string that names no class for type, the empty list for values, None
\* for colors and geometry
Attributes == {"type", "colors", "values", "geometry"}
AttrValue(k) ==
    CASE k = "type" -> Str("Unknown")
      [] k = "values" -> <<>>
      [] OTHER -> None

\* obj.k = v on the entity a call returned.  The classes set neither frozen
\* nor validate_assignment in model_config, so that BaseModel.__setattr__
\* stores the value in the field without validating it.
SetAttr ==
    /\ pc = "done" /\ result.exc = "none"
    /\ \E k \in Attributes \cap DOMAIN result.obj :
          result' = [result EXCEPT !.obj[k] = AttrValue(k)]
    /\ pc' = "assigned"
    /\ UNCHANGED <<call, wire, parsed>>

\* obj.dict() of the entity a call returned
Serialize ==
    /\ pc = "done" /\ result.exc = "none"
    /\ wire' = Some(dict(result.obj))
    /\ pc' = "serialized"
    /\ UNCHANGED <<call, result, parsed>>

\* The JSON object is parsed again: by the class of the entity, or, when the
\* entity was an element of a union-typed field, by that union
ParseSerialized ==
    /\ pc = "serialized"
    /\ \E p \in {wire.v} :
          parsed' = Some(IF call.op = "Union"
                         THEN Union(Unions[call.union], p)
                         ELSE Construct(result.obj.cls, p))
    /\ pc' = "parsed"
    /\ UNCHANGED <<call, result, wire>>

Next ==
    \/ ParseEntity
    \/ ResolveUnion
    \/ ParseAnalysisGeometry
    \/ ParseGraphicContainer
    \/ ParseMesh2D
    \/ ParseMesh3D
    \/ ParseDisplayMesh2D
    \/ ParseDisplayMesh3D
    \/ ParseDisplayPolyface3D
    \/ ParseDefaultOr
    \/ ParseActiveData
    \/ ParseLegend2D
    \/ FieldDefault
    \/ ParseSegmentCount
    \/ ParseGenericDataType
    \/ ParseExtraKey
    \/ ParseVertices
    \/ ParseFaces
    \/ ParseEdges
    \/ SetAttr
    \/ Serialize
    \/ ParseSerialized

Spec == Init /\ [][Next]_vars

(***************************************************************************)
(* Properties                                                              *)
(***************************************************************************)
Done(op) == pc = "done" /\ call.op = op
Accepted == result.exc = "none"
Rejected == result.exc = "ValidationError"

\* The counts of a list of geometry items, from the items of the call
IsMeshItem(g) == g.k \in {"Mesh2D", "Mesh3D"}
RECURSIVE MeshFaces(_)
MeshFaces(gs) ==
    IF gs = <<>> THEN 0
    ELSE (IF IsMeshItem(Head(gs)) THEN Head(gs).nf ELSE 0) + MeshFaces(Tail(gs))
RECURSIVE MeshVertices(_)
MeshVertices(gs) ==
    IF gs = <<>> THEN 0
    ELSE (IF IsMeshItem(Head(gs)) THEN Head(gs).nv ELSE 0)
         + MeshVertices(Tail(gs))
Counts(gs) == {Len(gs), MeshFaces(gs), MeshVertices(gs)}

\* every field of the call is valid on its own
ItemValid(g) == IsMeshItem(g) => g.nv >= 3 /\ g.nf >= 1
ItemsValid(gs) == \A i \in 1..Len(gs) : ItemValid(gs[i])
DataSetsValid(ls) == Len(ls) >= 1 /\ \A i \in 1..Len(ls) : ls[i] >= 1
SameLength(ls) == \A i \in 1..Len(ls) : ls[i] = ls[1]

C2_OneLength ==
    Done("AnalysisGeometry")
    => /\ ~SameLength(call.lens) => Rejected
       /\ Accepted => \A i \in 1..Len(result.obj.data_sets) :
                         Len(result.obj.data_sets[i].values)
                            = Len(result.obj.data_sets[1].values)

\* rejected by the comparison of the data sets, both lengths being counts
\* of the geometry
C2_Witness ==
    /\ Done("AnalysisGeometry") /\ Rejected
    /\ ItemsValid(call.geos) /\ DataSetsValid(call.lens)
    /\ Len(call.lens) = 2
    /\ call.lens[1] # call.lens[2]
    /\ {call.lens[1], call.lens[2]} \subseteq Counts(call.geos)
    /\ result.root.exc = "AssertionError"
    /\ result.root.msg = <<call.lens[2], call.lens[1]>>

\* C3: a DisplayMesh2D, DisplayMesh3D or DisplayPolyface3D whose geometry
\* and colors are valid is accepted if and only if the number of colors is
\* 1, the number of faces or the number of vertices of the geometry.
C3_ColorsAlign ==
    /\ pc = "done"
    /\ call.op \in {"DisplayMesh2D", "DisplayMesh3D", "DisplayPolyface3D"}
    /\ call.nv >= 3 /\ call.nf >= 1 /\ call.nc >= 0
    => (Accepted <=> call.nc \in {1, call.nf, call.nv})

\* accepted with a number of colors that is both the number of faces and
\* the number of vertices
C3_Witness ==
    /\ Done("DisplayMesh2D") /\ Accepted
    /\ call.nc = call.nf /\ call.nc = call.nv
    /\ Len(result.obj.colors) = Len(result.obj.geometry.faces)

\* C4: a Mesh2D or Mesh3D with a colors list is accepted only if the
\* number of colors is 1, the number of faces or the number of vertices.
C4_MeshColors ==
    /\ pc = "done" /\ call.op \in {"Mesh2D", "Mesh3D"}
    /\ Accepted /\ call.nc >= 0
    => call.nc \in {1, call.nf, call.nv}

\* C5: a GraphicContainer whose geometry is one valid Mesh2D, Mesh3D or
\* Polyface3D is accepted if and only if the number of values is the number
\* of faces or the number of vertices of the geometry, whether min_point and
\* max_point are given or not.
C5_SingleGeometry ==
    /\ Done("GraphicContainer") /\ call.shape = "one"
    /\ call.geos[1].k \in {"Mesh2D", "Mesh3D", "Polyface3D"}
    /\ ItemValid(call.geos[1])
    => (Accepted <=> call.nval \in {call.geos[1].nf, call.geos[1].nv})

\* a polyface accepted on the number of its faces, without min_point and
\* max_point
C5_Witness ==
    /\ Done("GraphicContainer") /\ Accepted
    /\ call.shape = "one" /\ call.geos[1].k = "Polyface3D"
    /\ ~call.pmin /\ ~call.pmax
    /\ call.nval = Len(result.obj.geometry.v.face_indices)
    /\ call.nval # Len(result.obj.geometry.v.vertices)

\* C6: a GraphicContainer without geometry or with a list of geometries is
\* accepted only if min_point and max_point are both given.
C6_MinMaxRequired ==
    Done("GraphicContainer") /\ call.shape \in {"none", "list"} /\ Accepted
    => call.pmin /\ call.pmax

\* a list of geometries with one value each, rejected for the missing
\* max_point only
C6_Witness ==
    /\ Done("GraphicContainer") /\ Rejected
    /\ call.shape = "list" /\ ItemsValid(call.geos)
    /\ call.nval = Len(call.geos)
    /\ call.pmin /\ ~call.pmax
    /\ ~result.field_errors
    /\ result.root.exc = "AssertionError"

\* C7: a GraphicContainer whose geometry is a list is accepted only if the
\* number of values is the number of items of the list, also when the items
\* are meshes.
C7_ListLength ==
    Done("GraphicContainer") /\ call.shape = "list" /\ Accepted
    => call.nval = Len(call.geos)

\* a list of one mesh with as many values as the mesh has faces, rejected
C7_Witness ==
    /\ Done("GraphicContainer") /\ Rejected
    /\ call.shape = "list" /\ Len(call.geos) = 1
    /\ IsMeshItem(call.geos[1]) /\ ItemValid(call.geos[1])
    /\ call.nval = call.geos[1].nf /\ call.nval # 1
    /\ call.pmin /\ call.pmax
    /\ result.root.msg = <<call.nval, 1>>

\* C8: the type of an accepted entity is exactly the name of its class.
C8_TypeExact ==
    Done("Entity") /\ Accepted /\ call.cls \notin Untyped
    => result.obj.type = Str(call.cls)

\* C9: a payload that leaves out the type key is rejected, for every
\* entity class.
C9_TypeRequired ==
    Done("Entity") /\ ~call.tagged => Rejected

\* C9, amended: a payload that leaves out the type key and is valid
\* otherwise is accepted, for every entity class, and the type of the
\* entity is then the name of its class; PolyfaceEdgeInfo has no type.
C9_TypeDefaults ==
    Done("Entity") /\ ~call.tagged
    => /\ Accepted
       /\ call.cls \notin Untyped => result.obj.type = Str(call.cls)
       /\ call.cls \in Untyped => "type" \notin DOMAIN result.obj

\* a Color built from a payload without type key
C9_Witness ==
    /\ Done("Entity") /\ ~call.tagged /\ call.cls = "Color"
    /\ Accepted /\ result.obj.type = <<"Color">>

\* the class the type key of the call names, "" without type key
TagName == IF call.tagged THEN call.tag[1] ELSE ""

\* the first member, in the order of its union, that accepts the fields of
\* a payload of the class shape without type key
FirstFit(shape) ==
    CASE shape = "Point2D" -> "Vector2D"
      [] shape = "LineSegment2D" -> "Ray2D"
      [] shape = "Polygon2D" -> "Polyline2D"
      [] shape = "Point3D" -> "Vector3D"
      [] shape = "LineSegment3D" -> "Ray3D"
      [] shape = "DisplayPoint2D" -> "DisplayVector2D"
      [] shape = "DisplayLineSegment2D" -> "DisplayRay2D"
      [] shape = "DisplayPolygon2D" -> "DisplayPolyline2D"
      [] shape = "DisplayPoint3D" -> "DisplayVector3D"
      [] shape = "DisplayLineSegment3D" -> "DisplayRay3D"
      [] OTHER -> shape

VariantNames == {<<Unions[call.union][j]>> : j \in 1..Len(Unions[call.union])}

\* C11: resolving an element whose type key equals none of the names of
\* the members of the union fails.
C11_UnknownTagFails ==
    Done("Union") /\ call.tagged /\ call.tag \notin VariantNames => Rejected

\* the lower bound of the number of the field of a DefaultOr call allows n
NumberValid ==
    \A f \in DefaultOrFields :
        f.cls = call.cls /\ f.field = call.field => call.n >= f.ge.v

\* C15: in a field declared Default-or-T a number that is a valid T is
\* accepted and kept as that number, 0 included, and never becomes Default;
\* only an object that carries the Default tag becomes Default.
C15_DefaultTagOnly ==
    Done("DefaultOr")
    => /\ call.given = "number" /\ NumberValid
            => /\ Accepted
               /\ ~result.obj[call.field].isDefault
               /\ result.obj[call.field].v = call.n
       /\ call.given \notin {"absent", "Default"}
            => ~(Accepted /\ result.obj[call.field].isDefault)

\* C15, amended: a number that is a valid T is kept as that number, 0
\* included; a number that is not a valid T and an object with another type
\* are rejected; an object becomes Default if and only if it has no key or
\* the sole key type with the value Default.
C15_DefaultOrNumber ==
    Done("DefaultOr")
    => /\ call.given = "number" /\ NumberValid
            => /\ Accepted
               /\ ~result.obj[call.field].isDefault
               /\ result.obj[call.field].v = call.n
       /\ call.given = "number" /\ ~NumberValid => Rejected
       /\ call.given \in {"newline", "Unknown"} => Rejected
       /\ call.given \in {"absent", "Default", "empty"}
            => Accepted /\ result.obj[call.field].isDefault

\* line_width given as the number 0 is kept as 0
C15_Witness ==
    /\ Done("DefaultOr") /\ call.field = "line_width"
    /\ call.given = "number" /\ call.n = 0
    /\ Accepted /\ ~result.obj.line_width.isDefault
    /\ result.obj.line_width.v = 0


\* the call returned an entity, which was serialized and parsed again
Reparsed == pc = "parsed"

Serialized == pc = "serialized"

\* C13: the serialization of an entity has a type key whose value is the
\* name of the entity's class, also when the call gave no type; the same
\* holds for the edge_information nested in a Polyface3D.
C13_TypeEmitted ==
    Serialized =>
        /\ "type" \in DOMAIN wire.v
        /\ wire.v.type = Str(ClassName(result.obj.cls))
        /\ (result.obj.cls = "Polyface3D" /\ "edge_information" \in DOMAIN wire.v)
              => /\ "type" \in DOMAIN wire.v.edge_information
                 /\ wire.v.edge_information.type = Str("PolyfaceEdgeInfo")

\* C14: a field declared Union[Default, T] that the call leaves out holds
\* Default; the entity is serialized with the JSON object of Default in
\* that field, not a number; parsing the serialization yields an entity
\* whose field holds Default again, not a number.
C14_UnsetDefault ==
    (call.op = "DefaultOr" /\ call.given = "absent" /\ pc # "call") =>
        /\ result.exc = "none"
        /\ result.obj[call.field] = [isDefault |-> TRUE, v |-> Default]
        /\ pc \in {"serialized", "parsed"} =>
              /\ wire.v[call.field].json = "object"
              /\ wire.v[call.field].v = [type |-> Str("Default")]
        /\ pc = "parsed" =>
              /\ parsed.v.exc = "none"
              /\ parsed.v.obj[call.field] = [isDefault |-> TRUE, v |-> Default]

\* a LegendParameters built without segment_count was serialized and
\* parsed, and holds Default again
C14_Witness ==
    /\ Reparsed /\ call.op = "DefaultOr" /\ call.given = "absent"
    /\ call.cls = "LegendParameters" /\ call.field = "segment_count"
    /\ wire.v.segment_count.json = "object"
    /\ parsed.v.exc = "none" /\ parsed.v.obj.segment_count.isDefault

\* C16: a payload that is valid for its class but for one key the class
\* does not declare is rejected, whatever the class.
C16_ExtraKeyRejected ==
    Done("Extra") =>
        /\ Rejected
        /\ Construct(call.cls, TaggedPayload(call, call.cls)).exc = "none"

\* a GraphicContainer payload with the key id was rejected
C16_Witness ==
    /\ Done("Extra") /\ call.cls = "GraphicContainer" /\ call.key = "id"
    /\ Rejected

\* C17: entities are immutable.  An attribute assignment on an entity a
\* call returned leaves every field of the entity as it was constructed.
C17_Immutable ==
    [][pc' = "assigned" => result' = result]_vars

\* C18: a Polyline2D, Polyline3D, Polygon2D, Mesh2D, Mesh3D or Polyface3D
\* whose list of vertices, or a Face3D whose boundary, has fewer than 3
\* vertices is rejected; with 3 vertices or more it is accepted.
C18_MinThreeVertices ==
    Done("Vertices") =>
        /\ call.n < 3 => Rejected
        /\ call.n >= 3 => Accepted

\* a Polyline2D with exactly 3 vertices was accepted
C18_Witness ==
    /\ Done("Vertices") /\ call.cls = "Polyline2D" /\ call.n = 3
    /\ Accepted /\ Len(result.obj.fields.vertices) = 3

\* C19: in an accepted Mesh2D or Mesh3D every face has 3 or 4 indices and
\* every index of every face is the index of a vertex of the mesh:
\* 0 <= i < len(vertices).
C19_FacesReferenceVertices ==
    (Done("Faces") /\ Accepted) =>
        \A f \in 1..Len(result.obj.faces) :
            /\ Len(result.obj.faces[f]) \in {3, 4}
            /\ \A j \in 1..Len(result.obj.faces[f]) :
                  /\ result.obj.faces[f][j] >= 0
                  /\ result.obj.faces[f][j] < Len(result.obj.vertices)

\* C20: in an accepted Polyface3D that has edge_information, edge_indices
\* and edge_types have the same length.
C20_EdgesParallel ==
    (Done("Edges") /\ Accepted /\ ~result.obj.edge_information.isNone) =>
        Len(result.obj.edge_information.v.fields.edge_indices)
          = Len(result.obj.edge_information.v.fields.edge_types)

\* C21: point_in_time and cumulative are mutually exclusive: no accepted
\* GenericDataType holds both flags true.
C21_FlagsExclusive ==
    (Done("GenericDataType") /\ Accepted) =>
        ~(result.obj.fields.point_in_time /\ result.obj.fields.cumulative)

\* C22: each of the two LegendParameters accepts a segment_count given as
\* the integer n if and only if n >= 1, and accepts Default in its place.
C22_SegmentCountOne ==
    Done("SegmentCount") =>
        /\ call.given = "number" => (Accepted <=> call.n >= 1)
        /\ call.given = "Default" => Accepted

\* C22, amended: LegendParameters of the module visualization accepts the
\* integer n if and only if n >= 1, the one of the module graphic if and
\* only if n >= 2; both keep an accepted n as it is and accept Default.
C22_SegmentCountPerModule ==
    Done("SegmentCount") =>
        /\ (call.given = "number" /\ call.cls = "LegendParameters")
              => (Accepted <=> call.n >= 1)
        /\ (call.given = "number" /\ call.cls = "graphic.LegendParameters")
              => (Accepted <=> call.n >= 2)
        /\ (call.given = "number" /\ Accepted)
              => /\ ~result.obj.segment_count.isDefault
                 /\ result.obj.segment_count.v = call.n
        /\ call.given = "Default"
              => Accepted /\ result.obj.segment_count.isDefault

\* segment_count = 1 was accepted by the LegendParameters of visualization
\* and rejected by the one of graphic
C22_Witness ==
    /\ Done("SegmentCount") /\ call.given = "number" /\ call.n = 1
    /\ call.cls = "graphic.LegendParameters" /\ Rejected
    /\ LegendParameters([segment_count |-> DefaultOrGiven(call)]).exc = "none"

\* C23: a field left out of the payload takes its default: display_mode is
\* 'Surface' in every class that declares it, interpolated is false in
\* Polyline2D and Polyline3D.
C23_Defaults ==
    pc = "read" =>
        /\ Accepted
        /\ call.field = "display_mode" => result.obj = "Surface"
        /\ call.field = "interpolated" => result.obj = FALSE

\* C24: when the fields of an AnalysisGeometry are valid and the length of
\* the values of its first data set is none of the three counts, the error
\* raised names the four numbers: that length, the number of geometries,
\* the number of mesh faces and the number of mesh vertices.
C24_MismatchMessage ==
    (/\ Done("AnalysisGeometry")
     /\ ItemsValid(call.geos) /\ DataSetsValid(call.lens)
     /\ call.lens[1] \notin Counts(call.geos))
    => /\ Rejected
       /\ result.root.exc = "AssertionError"
       /\ result.root.msg = <<call.lens[1], Len(call.geos),
                              MeshFaces(call.geos), MeshVertices(call.geos)>>

\* two geometries that are no meshes with 3 values: the error names 3, 2,
\* 0 and 0
C24_Witness ==
    /\ Done("AnalysisGeometry") /\ Rejected
    /\ Len(call.geos) = 2 /\ \A i \in 1..2 : ~IsMeshItem(call.geos[i])
    /\ call.lens = <<3>>
    /\ result.root.exc = "AssertionError"
    /\ result.root.msg = <<3, 2, 0, 0>>

\* a field that the validator of the class reads failed its validation
FieldFailed ==
    CASE call.op \in {"DisplayMesh2D", "DisplayMesh3D", "DisplayPolyface3D"} ->
            call.nv < 3 \/ call.nf < 1 \/ call.nc < 0
      [] call.op = "AnalysisGeometry" ->
            ~ItemsValid(call.geos) \/ ~DataSetsValid(call.lens)
      [] call.op = "GraphicContainer" ->
            call.nval < 1 \/ ~ItemsValid(call.geos)
      [] OTHER -> FALSE

\* C25: when a field that the validator of a DisplayMesh2D, DisplayMesh3D,
\* DisplayPolyface3D, AnalysisGeometry or GraphicContainer reads has failed
\* its validation, the call ends in a validation error, and the validator
\* has raised nothing: it has not run on the missing field.
C25_ValidatorAfterFields ==
    (pc = "done" /\ FieldFailed) =>
        /\ result.exc = "ValidationError"
        /\ result.root.exc = "none"

\* the geometries of the call are meshes and other objects
Mixed(gs) ==
    /\ \E i \in 1..Len(gs) : IsMeshItem(gs[i])
    /\ \E i \in 1..Len(gs) : ~IsMeshItem(gs[i])

IntegerWithUnit(s) ==
    LET d == leading_digits(s)
    IN  /\ d >= 1
        /\ \/ Len(s) = d + 2 /\ s[d + 1] = "p" /\ s[d + 2] = "x"
           \/ Len(s) = d + 1 /\ s[d + 1] = "%"

\* C27: a string field of Legend2DParameters accepts a string if and only
\* if the whole string is an integer followed by px or by %.
C27_IntegerWithUnit ==
    Done("Legend2D") => (Accepted <=> IntegerWithUnit(call.s))

\* C28: an AnalysisGeometry whose geometry list is empty is never
\* accepted.
C28_EmptyGeometryRejected ==
    Done("AnalysisGeometry") /\ call.geos = <<>> => Rejected

\* no geometry and one data set of one value: the three counts are 0 and
\* the length 1 is none of them
C28_Witness ==
    /\ Done("AnalysisGeometry") /\ Rejected
    /\ call.geos = <<>> /\ call.lens = <<1>>
    /\ result.root.exc = "AssertionError"
    /\ result.root.msg = <<1, 0, 0, 0>>

\* C29: the active_data of every accepted AnalysisGeometry is the index of
\* one of its data sets: 0 <= active_data < len(data_sets).
C29_ActiveDataInRange ==
    Done("ActiveData") /\ Accepted
    => /\ 0 <= result.obj.active_data
       /\ result.obj.active_data < Len(result.obj.data_sets)

\* C30: a Polyface3D counts as one geometry in an AnalysisGeometry, its
\* faces and vertices counting for nothing: with a single Polyface3D only
\* data sets of one value are accepted.  A GraphicContainer holding the
\* Polyface3D alone is accepted if and only if the number of its values is
\* the number of faces or the number of vertices of the polyface.
C30_PolyfaceCounts ==
    /\ (/\ Done("AnalysisGeometry")
        /\ Len(call.geos) = 1 /\ call.geos[1].k = "Polyface3D"
        /\ DataSetsValid(call.lens))
       => (Accepted <=> \A i \in 1..Len(call.lens) : call.lens[i] = 1)
    /\ (/\ Done("GraphicContainer")
        /\ call.shape = "one" /\ call.geos[1].k = "Polyface3D")
       => (Accepted <=>
             \/ call.nval = Len(GeoPayload(call.geos[1]).face_indices)
             \/ call.nval = Len(GeoPayload(call.geos[1]).vertices))

\* an AnalysisGeometry of one polyface with 2 faces and 3 vertices,
\* accepted with one value
C30_Witness ==
    /\ Done("AnalysisGeometry") /\ Accepted
    /\ call.lens = <<1>>
    /\ Len(result.obj.geometry) = 1
    /\ result.obj.geometry[1].cls = "Polyface3D"
    /\ Len(result.obj.geometry[1].face_indices) = 2
    /\ Len(result.obj.geometry[1].vertices) = 3

====
